---- MODULE Spec2Model ----
(***************************************************************************)
(* Room-list reconciliation of matrix-ui-serializable.                     *)
(*                                                                         *)
(* The reconciler (init/sync.rs) consumes batches of VectorDiff from the   *)
(* room list service, keeps the mirror vector all_known_rooms, maintains   *)
(* the session map ALL_JOINED_ROOMS (room/joined_room.rs) and pushes       *)
(* RoomsListUpdate records on PENDING_ROOM_UPDATES.  The UI worker         *)
(* (init/workers.rs) drains that queue into the RoomsList store            *)
(* (room/rooms_list.rs).                                                   *)
(*                                                                         *)
(* Every access of the reconciler to shared state (session map, update     *)
(* queue) is one step of the model, in the order of the code, so that the  *)
(* UI worker interleaves with it as the tokio runtime allows.              *)
(***************************************************************************)
EXTENDS Integers, Sequences, FiniteSets, TLC

\* ---------------------------------------------------------------- bounds
\* Number of turns of the loop of sync() in one behaviour; a turn handles
\* one diff, or a removing diff together with the diff that follows it.
MaxTurns == 2

\* ------------------------------------------------------------ value sets
Rooms == {"r1", "r2"}

None == "None"

\* matrix_sdk::RoomState
RoomStates == {"Knocked", "Banned", "Left", "Invited", "Joined"}

\* RoomDisplayName::Empty, the fallback of display_name.unwrap_or(..)
Empty == "Empty"

\* RoomListServiceRoomInfo: the snapshot of a room taken by from_room().
\* tags, unread counts, heroes and power levels are carried by the code in
\* the same way as topic; they are not part of the modelled snapshot.
Snapshot(r, st, dir, tomb, av, nm, tp) ==
    [room_id |-> r, state |-> st, is_direct |-> dir, is_tombstoned |-> tomb,
     room_avatar |-> av, display_name |-> nm, topic |-> tp]

\* Snapshots of a room whose lifecycle state varies and of a second, joined
\* room; their details are fixed.
LifecycleRooms ==
    {Snapshot("r1", st, FALSE, FALSE, None, "n1", None) : st \in RoomStates}
    \cup {Snapshot("r2", "Joined", FALSE, FALSE, None, "n1", None)}

\* Snapshots of one room, Invited or Joined, whose is_direct flag and avatar
\* vary.
DetailRooms ==
    {Snapshot("r1", st, dir, FALSE, av, "n1", None) :
        st \in {"Invited", "Joined"}, dir \in BOOLEAN, av \in {None, "a1"}}

\* Snapshots of one room, Invited or Joined, whose tombstone flag and topic
\* vary.
FieldRooms ==
    {Snapshot("r1", st, FALSE, tomb, None, "n1", tp) :
        st \in {"Invited", "Joined"}, tomb \in BOOLEAN, tp \in {None, "t1"}}

\* The one room of SpecDrain.
DrainRooms == {Snapshot("r1", "Joined", FALSE, FALSE, None, "n1", None)}

\* Keywords the frontend may filter the room list by.
Keywords == {"n1", "n2"}

\* ------------------------------------------------------------ VectorDiff
Diff(k, i, vs) == [kind |-> k, index |-> i, values |-> vs]

NoDiff == Diff("NoDiff", 0, <<>>)

RoomIds(v) == [i \in 1..Len(v) |-> v[i].room_id]

Range(s) == {s[i] : i \in 1..Len(s)}

\* Sequences over S of length at most 2 with pairwise distinct room ids
\* none of which is in `used'.
FreshValues(S, used) ==
    LET F == {x \in S : x.room_id \notin used} IN
    {<<>>} \cup {<<a>> : a \in F}
           \cup {p \in {<<a, b>> : a \in F, b \in F} : p[1].room_id # p[2].room_id}

\* The diffs the room list service can deliver when its own vector holds the
\* room ids e: indices are in bounds and a room occurs at most once.
ValidDiffs(S, e) ==
    LET fresh == {x \in S : x.room_id \notin Range(e)} IN
       {Diff("Append", 0, vs) : vs \in FreshValues(S, Range(e)) \ {<<>>}}
    \cup {Diff("Clear", 0, <<>>), Diff("PopFront", 0, <<>>), Diff("PopBack", 0, <<>>)}
    \cup {Diff("PushFront", 0, <<x>>) : x \in fresh}
    \cup {Diff("PushBack", 0, <<x>>) : x \in fresh}
    \cup {Diff("Insert", i, <<x>>) : i \in 0..Len(e), x \in fresh}
    \cup UNION {{Diff("Set", i, <<x>>) :
                    x \in {y \in S : y.room_id = e[i + 1] \/ y.room_id \notin Range(e)}} :
                i \in 0..(Len(e) - 1)}
    \cup {Diff("Remove", i, <<>>) : i \in 0..(Len(e) - 1)}
    \cup {Diff("Truncate", n, <<>>) : n \in 0..Len(e)}
    \cup {Diff("Reset", 0, vs) : vs \in FreshValues(S, {})}

\* ------------------------------------------- plain vector operations (imbl)
InsertAt(v, i, x) == SubSeq(v, 1, i) \o <<x>> \o SubSeq(v, i + 1, Len(v))

RemoveAt(v, i) == SubSeq(v, 1, i) \o SubSeq(v, i + 2, Len(v))

SetAt(v, i, x) == [v EXCEPT ![i + 1] = x]

\* The diff d with each value replaced by its room id.
IdDiff(d) == [d EXCEPT !.values = RoomIds(@)]

\* A VectorDiff applied to a vector, as eyeball_im defines it.
ApplyDiff(v, d) ==
    LET vals == d.values IN
    CASE d.kind = "Append"    -> v \o vals
      [] d.kind = "Clear"     -> <<>>
      [] d.kind = "PushFront" -> vals \o v
      [] d.kind = "PushBack"  -> v \o vals
      [] d.kind = "PopFront"  -> IF v = <<>> THEN v ELSE Tail(v)
      [] d.kind = "PopBack"   -> IF v = <<>> THEN v ELSE SubSeq(v, 1, Len(v) - 1)
      [] d.kind = "Insert"    -> InsertAt(v, d.index, vals[1])
      [] d.kind = "Set"       -> SetAt(v, d.index, vals[1])
      [] d.kind = "Remove"    -> RemoveAt(v, d.index)
      [] d.kind = "Truncate"  -> SubSeq(v, 1, d.index)
      [] d.kind = "Reset"     -> vals
      [] OTHER                -> v

\* ------------------------------------------------------ RoomsListUpdate
\* InvitedRoomInfo built by add_new_room for an Invited snapshot.
InvitedRoomInfo(new_room) ==
    [room_id |-> new_room.room_id,
     room_name |-> IF new_room.display_name = None THEN Empty ELSE new_room.display_name,
     room_avatar |-> new_room.room_avatar,
     is_direct |-> new_room.is_direct]

\* JoinedRoomInfo built by add_new_room for a Joined snapshot.
JoinedRoomInfo(new_room) ==
    [room_id |-> new_room.room_id,
     room_name |-> IF new_room.display_name = None THEN Empty ELSE new_room.display_name,
     avatar |-> new_room.room_avatar,
     topic |-> new_room.topic,
     is_direct |-> new_room.is_direct,
     is_tombstoned |-> new_room.is_tombstoned]

AddInvitedRoom(info) == [type |-> "AddInvitedRoom", room_id |-> info.room_id, info |-> info]

AddJoinedRoom(info) == [type |-> "AddJoinedRoom", room_id |-> info.room_id, info |-> info]

RemoveRoom(r, st) == [type |-> "RemoveRoom", room_id |-> r, new_state |-> st]

ClearRooms == [type |-> "ClearRooms", room_id |-> None]

UpdateRoomAvatar(r, av) == [type |-> "UpdateRoomAvatar", room_id |-> r, avatar |-> av]

UpdateRoomName(r, nm) == [type |-> "UpdateRoomName", room_id |-> r, new_room_name |-> nm]

UpdateTopic(r, tp) == [type |-> "UpdateTopic", room_id |-> r, new_topic |-> tp]

UpdateIsDirect(r, dir) == [type |-> "UpdateIsDirect", room_id |-> r, is_direct |-> dir]

TombstonedRoom(r) == [type |-> "TombstonedRoom", room_id |-> r]

ApplyFilter(kw) == [type |-> "ApplyFilter", room_id |-> None, keywords |-> kw]

Status(status) == [type |-> "Status", room_id |-> None, status |-> status]

\* ----------------------------------------------- steps of the reconciler
\* One access to shared state, or one mutation of the mirror.
Op(o, r, i, v) == [op |-> o, room |-> r, index |-> i, val |-> v]

BuildOp(r) == Op("build_timeline", r, 0, None)

InsertDetailsOp(r) == Op("insert_room_details", r, 0, None)

RemoveDetailsOp(r) == Op("remove_room_details", r, 0, None)

ClearAllOp == Op("clear_all_rooms", None, 0, None)

EnqueueOp(u) == Op("enqueue", u.room_id, 0, u)

MirrorOp(k, i, v) == Op(k, None, i, v)

\* error!("BUG: ..."): an out-of-bounds index is logged.
LogBugOp == Op("log_bug", None, 0, None)

MirrorOps == {"push_back", "push_front", "insert", "set", "remove", "pop_front",
              "pop_back", "clear", "truncate"}

\* add_new_room() announcing a Joined room before its details are stored.
add_new_room_AnnounceFirst(new_room) ==
    CASE new_room.state \in {"Knocked", "Banned", "Left"} -> <<>>
      [] new_room.state = "Invited" ->
            <<EnqueueOp(AddInvitedRoom(InvitedRoomInfo(new_room)))>>
      [] new_room.state = "Joined" ->
            <<BuildOp(new_room.room_id),
              EnqueueOp(AddJoinedRoom(JoinedRoomInfo(new_room))),
              InsertDetailsOp(new_room.room_id)>>

\* add_new_room(): Knocked, Banned and Left rooms are ignored; an Invited
\* room is announced; a Joined room gets its timeline built and its
\* subscriber task spawned, then its details inserted, then it is announced.
add_new_room(new_room) ==
    CASE new_room.state \in {"Knocked", "Banned", "Left"} -> <<>>
      [] new_room.state = "Invited" ->
            <<EnqueueOp(AddInvitedRoom(InvitedRoomInfo(new_room)))>>
      [] new_room.state = "Joined" ->
            <<BuildOp(new_room.room_id),
              InsertDetailsOp(new_room.room_id),
              EnqueueOp(AddJoinedRoom(JoinedRoomInfo(new_room)))>>

\* remove_room()
remove_room(room) ==
    <<RemoveDetailsOp(room.room_id), EnqueueOp(RemoveRoom(room.room_id, room.state))>>

\* The comparison of fields announcing the tombstone of every tombstoned
\* snapshot, whatever the old one was.
update_room_fields_AlwaysTombstone(old_room, new_room) ==
    LET r == new_room.room_id IN
       (IF old_room.room_avatar # new_room.room_avatar /\ new_room.room_avatar # None
        THEN <<EnqueueOp(UpdateRoomAvatar(r, new_room.room_avatar))>> ELSE <<>>)
    \o (IF old_room.display_name # new_room.display_name /\ new_room.display_name # None
        THEN <<EnqueueOp(UpdateRoomName(r, new_room.display_name))>> ELSE <<>>)
    \o (IF old_room.topic # new_room.topic /\ new_room.topic # None
        THEN <<EnqueueOp(UpdateTopic(r, new_room.topic))>> ELSE <<>>)
    \o (IF new_room.state = "Joined"
        THEN   (IF old_room.is_direct # new_room.is_direct
                THEN <<EnqueueOp(UpdateIsDirect(r, new_room.is_direct))>> ELSE <<>>)
            \o (IF new_room.is_tombstoned
                THEN <<EnqueueOp(TombstonedRoom(r))>> ELSE <<>>)
        ELSE <<>>)

\* update_room(), the part that compares the fields of two snapshots of
\* the same room in the same state.
update_room_fields(old_room, new_room) ==
    LET r == new_room.room_id IN
       (IF old_room.room_avatar # new_room.room_avatar /\ new_room.room_avatar # None
        THEN <<EnqueueOp(UpdateRoomAvatar(r, new_room.room_avatar))>> ELSE <<>>)
    \o (IF old_room.display_name # new_room.display_name /\ new_room.display_name # None
        THEN <<EnqueueOp(UpdateRoomName(r, new_room.display_name))>> ELSE <<>>)
    \o (IF old_room.topic # new_room.topic /\ new_room.topic # None
        THEN <<EnqueueOp(UpdateTopic(r, new_room.topic))>> ELSE <<>>)
    \o (IF new_room.state = "Joined"
        THEN   (IF old_room.is_direct # new_room.is_direct
                THEN <<EnqueueOp(UpdateIsDirect(r, new_room.is_direct))>> ELSE <<>>)
            \o (IF ~old_room.is_tombstoned /\ new_room.is_tombstoned
                THEN <<EnqueueOp(TombstonedRoom(r))>> ELSE <<>>)
        ELSE <<>>)

\* update_room() removing the old room and adding the new one in every case.
update_room_Readd(old_room, new_room) ==
    remove_room(old_room) \o add_new_room(new_room)

\* update_room()
update_room(old_room, new_room) ==
    IF old_room.room_id = new_room.room_id
    THEN IF old_room.state # new_room.state
         THEN CASE new_room.state \in {"Banned", "Left"} -> remove_room(new_room)
                [] new_room.state \in {"Joined", "Invited"} -> add_new_room(new_room)
                [] new_room.state = "Knocked" -> <<>>
         ELSE update_room_fields(old_room, new_room)
    ELSE remove_room(old_room) \o add_new_room(new_room)

\* Whether the peeked diff re-adds the room that was just removed.
ReAdds(room, peek) ==
    /\ peek.kind \in {"Insert", "PushFront", "PushBack"}
    /\ peek.values[1].room_id = room.room_id

\* optimize_remove_then_add_into_update() pushing the room to the back
\* whatever the peeked diff is.
optimize_remove_then_add_into_update_PushBack(room, peek) ==
    IF ReAdds(room, peek)
    THEN update_room(room, peek.values[1]) \o <<MirrorOp("push_back", 0, peek.values[1])>>
    ELSE remove_room(room)

\* optimize_remove_then_add_into_update(): `room' has been taken out of the
\* mirror; `peek' is the next diff of the batch (NoDiff at its end).
optimize_remove_then_add_into_update(room, peek) ==
    IF ReAdds(room, peek)
    THEN update_room(room, peek.values[1])
         \o <<CASE peek.kind = "Insert"    -> MirrorOp("insert", peek.index, peek.values[1])
                [] peek.kind = "PushFront" -> MirrorOp("push_front", 0, peek.values[1])
                [] peek.kind = "PushBack"  -> MirrorOp("push_back", 0, peek.values[1])>>
    ELSE remove_room(room)

RECURSIVE AppendOps(_)
\* The loop of Append and of Reset: add each new room, then push it.
AppendOps(vs) ==
    IF vs = <<>> THEN <<>>
    ELSE add_new_room(Head(vs)) \o <<MirrorOp("push_back", 0, Head(vs))>> \o AppendOps(Tail(vs))

\* The loop of Truncate and of Reset popping the rooms without removing them.
PopAllOps_Bulk(v, n) ==
    [i \in 1..(IF Len(v) > n THEN Len(v) - n ELSE 0) |-> MirrorOp("pop_back", 0, None)]

RECURSIVE PopAllOps(_, _)
\* The loop of Truncate and of Reset: pop rooms off the back of the mirror v
\* while it is longer than n, removing each.
PopAllOps(v, n) ==
    IF Len(v) <= n THEN <<>>
    ELSE <<MirrorOp("pop_back", 0, None)>> \o remove_room(v[Len(v)])
         \o PopAllOps(SubSeq(v, 1, Len(v) - 1), n)

\* The body of the loop of sync() for the diff d, the mirror being v.
SyncOps(d, v, peek) ==
    CASE d.kind = "Append" -> AppendOps(d.values)
      [] d.kind = "Clear" ->
            <<MirrorOp("clear", 0, None), ClearAllOp, EnqueueOp(ClearRooms)>>
      [] d.kind = "PushFront" ->
            add_new_room(d.values[1]) \o <<MirrorOp("push_front", 0, d.values[1])>>
      [] d.kind = "PushBack" ->
            add_new_room(d.values[1]) \o <<MirrorOp("push_back", 0, d.values[1])>>
      [] d.kind = "PopFront" ->
            IF v = <<>> THEN <<>>
            ELSE <<MirrorOp("pop_front", 0, None)>>
                 \o optimize_remove_then_add_into_update(v[1], peek)
      [] d.kind = "PopBack" ->
            IF v = <<>> THEN <<>>
            ELSE <<MirrorOp("pop_back", 0, None)>>
                 \o optimize_remove_then_add_into_update(v[Len(v)], peek)
      [] d.kind = "Insert" ->
            add_new_room(d.values[1]) \o <<MirrorOp("insert", d.index, d.values[1])>>
      [] d.kind = "Set" ->
            (IF d.index < Len(v) THEN update_room(v[d.index + 1], d.values[1])
             ELSE <<LogBugOp>>)
            \o <<MirrorOp("set", d.index, d.values[1])>>
      [] d.kind = "Remove" ->
            IF d.index < Len(v)
            THEN <<MirrorOp("remove", d.index, None)>>
                 \o optimize_remove_then_add_into_update(v[d.index + 1], peek)
            ELSE <<LogBugOp>>
      [] d.kind = "Truncate" ->
            PopAllOps(v, d.index) \o <<MirrorOp("truncate", d.index, None)>>
      [] d.kind = "Reset" ->
            PopAllOps(v, 0) \o <<ClearAllOp, EnqueueOp(ClearRooms)>> \o AppendOps(d.values)

\* Whether sync() peeks at the next diff while handling d.
Peeks(d, v) ==
    \/ d.kind \in {"PopFront", "PopBack"} /\ v # <<>>
    \/ d.kind = "Remove" /\ d.index < Len(v)

\* ------------------------------------------------------------ RoomsList
\* HashMap<OwnedRoomId, _> as a function on the set of its keys.
EmptyMap == [r \in {} |-> None]

MapInsert(m, r, x) == [k \in DOMAIN m \cup {r} |-> IF k = r THEN x ELSE m[k]]

MapRemove(m, r) == [k \in DOMAIN m \ {r} |-> m[k]]

\* Vec::push
Push(list, r) == Append(list, r)

\* list.iter().position(|x| x == r).map(|index| list.remove(index))
RemoveFirst(list, r) ==
    IF r \notin Range(list) THEN list
    ELSE LET i == CHOOSE j \in 1..Len(list) :
                     list[j] = r /\ \A k \in 1..(j - 1) : list[k] # r
         IN  SubSeq(list, 1, i - 1) \o SubSeq(list, i + 1, Len(list))

\* The filter built by RoomDisplayFilterBuilder from the keywords: without
\* keywords every room is displayed, otherwise the rooms whose name matches.
Displayed(keywords, room) == keywords = "" \/ room.room_name = keywords

\* A RoomsCollectionStatus, as serde tags it: the variant and its message.
RoomsCollectionStatus(variant, message) == [status |-> variant, message |-> message]

\* RoomsList::new().  max_known_rooms is not a field of the model: it is set
\* by LoadedRooms only, an update no modelled task enqueues, and stays None.
NewRoomsList ==
    [invited_rooms |-> EmptyMap,
     all_joined_rooms |-> EmptyMap,
     display_filter |-> "",
     filter_keywords |-> "",
     displayed_invited_rooms |-> <<>>,
     displayed_direct_rooms |-> <<>>,
     displayed_regular_rooms |-> <<>>,
     status |-> RoomsCollectionStatus("NotLoaded", "Initiating")]

\* The list a joined room is displayed in.
JoinedList(is_direct) ==
    IF is_direct THEN "displayed_direct_rooms" ELSE "displayed_regular_rooms"

\* The (was_displayed, should_display) match of handle_rooms_list_updates.
Redisplay(rl, list, r, was_displayed, should_display) ==
    IF was_displayed /\ ~should_display THEN [rl EXCEPT ![list] = RemoveFirst(@, r)]
    ELSE IF ~was_displayed /\ should_display THEN [rl EXCEPT ![list] = Push(@, r)]
    ELSE rl

HandleAddInvitedRoom(rl, u) ==
    LET r == u.room_id
        should_display == Displayed(rl.display_filter, u.info)
        replaced == r \in DOMAIN rl.invited_rooms
        rl1 == [rl EXCEPT !.invited_rooms = MapInsert(@, r, u.info)]
    IN  IF ~replaced /\ should_display
        THEN [rl1 EXCEPT !.displayed_invited_rooms = Push(@, r)]
        ELSE rl1

\* The AddJoinedRoom arm leaving the invitation in place.
HandleAddJoinedRoom_KeepInvite(rl, u) ==
    LET r == u.room_id
        should_display == Displayed(rl.display_filter, u.info)
        replaced == r \in DOMAIN rl.all_joined_rooms
        rl1 == [rl EXCEPT !.all_joined_rooms = MapInsert(@, r, u.info)]
    IN  IF ~replaced /\ should_display
        THEN [rl1 EXCEPT ![JoinedList(u.info.is_direct)] = Push(@, r)]
        ELSE rl1

HandleAddJoinedRoom(rl, u) ==
    LET r == u.room_id
        should_display == Displayed(rl.display_filter, u.info)
        replaced == r \in DOMAIN rl.all_joined_rooms
        rl1 == [rl EXCEPT !.all_joined_rooms = MapInsert(@, r, u.info)]
        rl2 == IF ~replaced /\ should_display
               THEN [rl1 EXCEPT ![JoinedList(u.info.is_direct)] = Push(@, r)]
               ELSE rl1
    IN  IF r \in DOMAIN rl2.invited_rooms
        THEN [rl2 EXCEPT !.invited_rooms = MapRemove(@, r),
                         !.displayed_invited_rooms = RemoveFirst(@, r)]
        ELSE rl2

HandleUpdateRoomAvatar(rl, u) ==
    IF u.room_id \in DOMAIN rl.all_joined_rooms
    THEN [rl EXCEPT !.all_joined_rooms[u.room_id].avatar = u.avatar]
    ELSE rl

HandleUpdateRoomName(rl, u) ==
    LET r == u.room_id IN
    IF r \in DOMAIN rl.all_joined_rooms
    THEN LET room == rl.all_joined_rooms[r]
             renamed == [room EXCEPT !.room_name = u.new_room_name]
         IN  Redisplay([rl EXCEPT !.all_joined_rooms[r] = renamed],
                       JoinedList(room.is_direct), r,
                       Displayed(rl.display_filter, room),
                       Displayed(rl.display_filter, renamed))
    ELSE IF r \in DOMAIN rl.invited_rooms
    THEN LET room == rl.invited_rooms[r]
             renamed == [room EXCEPT !.room_name = u.new_room_name]
         IN  Redisplay([rl EXCEPT !.invited_rooms[r] = renamed],
                       "displayed_invited_rooms", r,
                       Displayed(rl.display_filter, room),
                       Displayed(rl.display_filter, renamed))
    ELSE rl

HandleUpdateTopic(rl, u) ==
    IF u.room_id \in DOMAIN rl.all_joined_rooms
    THEN [rl EXCEPT !.all_joined_rooms[u.room_id].topic = u.new_topic]
    ELSE rl

HandleUpdateIsDirect(rl, u) ==
    LET r == u.room_id IN
    IF r \in DOMAIN rl.all_joined_rooms /\ rl.all_joined_rooms[r].is_direct # u.is_direct
    THEN LET room == rl.all_joined_rooms[r]
             changed == [room EXCEPT !.is_direct = u.is_direct]
             rl1 == IF Displayed(rl.display_filter, room)
                    THEN [rl EXCEPT ![JoinedList(room.is_direct)] = RemoveFirst(@, r)]
                    ELSE rl
             rl2 == [rl1 EXCEPT !.all_joined_rooms[r] = changed]
         IN  IF Displayed(rl.display_filter, changed)
             THEN [rl2 EXCEPT ![JoinedList(u.is_direct)] = Push(@, r)]
             ELSE rl2
    ELSE rl

HandleRemoveRoom(rl, u) ==
    LET r == u.room_id IN
    IF r \in DOMAIN rl.all_joined_rooms
    THEN [rl EXCEPT !.all_joined_rooms = MapRemove(@, r),
                    ![JoinedList(rl.all_joined_rooms[r].is_direct)] = RemoveFirst(@, r)]
    ELSE IF r \in DOMAIN rl.invited_rooms
    THEN [rl EXCEPT !.invited_rooms = MapRemove(@, r),
                    !.displayed_invited_rooms = RemoveFirst(@, r)]
    ELSE rl

HandleClearRooms(rl) ==
    [rl EXCEPT !.all_joined_rooms = EmptyMap,
               !.displayed_direct_rooms = <<>>,
               !.displayed_regular_rooms = <<>>,
               !.invited_rooms = EmptyMap,
               !.displayed_invited_rooms = <<>>]

HandleTombstonedRoom(rl, u) ==
    LET r == u.room_id IN
    IF r \in DOMAIN rl.all_joined_rooms
    THEN LET room == rl.all_joined_rooms[r]
             dead == [room EXCEPT !.is_tombstoned = TRUE]
         IN  Redisplay([rl EXCEPT !.all_joined_rooms[r] = dead],
                       JoinedList(room.is_direct), r,
                       Displayed(rl.display_filter, room),
                       Displayed(rl.display_filter, dead))
    ELSE rl

HandleApplyFilter(rl, u) == [rl EXCEPT !.filter_keywords = u.keywords]

\* RoomsListUpdate::Status { status } => self.status = status
HandleStatus(rl, u) == [rl EXCEPT !.status = u.status]

\* update_status_rooms_count() with max_known_rooms = None.
update_status_rooms_count(rl) ==
    LET num_rooms == Cardinality(DOMAIN rl.all_joined_rooms)
                     + Cardinality(DOMAIN rl.invited_rooms)
    IN  RoomsCollectionStatus("Loaded", "Loaded " \o ToString(num_rooms) \o " rooms.")

\* self.update_status_rooms_count() at the end of an arm of the match.
WithRoomsCount(rl) == [rl EXCEPT !.status = update_status_rooms_count(rl)]

\* One iteration of the loop of handle_rooms_list_updates(): the match on
\* the dequeued update.
HandleUpdate(rl, u) ==
    CASE u.type = "AddInvitedRoom"   -> WithRoomsCount(HandleAddInvitedRoom(rl, u))
      [] u.type = "AddJoinedRoom"    -> WithRoomsCount(HandleAddJoinedRoom(rl, u))
      [] u.type = "UpdateRoomAvatar" -> HandleUpdateRoomAvatar(rl, u)
      [] u.type = "UpdateRoomName"   -> HandleUpdateRoomName(rl, u)
      [] u.type = "UpdateTopic"      -> HandleUpdateTopic(rl, u)
      [] u.type = "UpdateIsDirect"   -> HandleUpdateIsDirect(rl, u)
      [] u.type = "RemoveRoom"       -> WithRoomsCount(HandleRemoveRoom(rl, u))
      [] u.type = "ClearRooms"       -> WithRoomsCount(HandleClearRooms(rl))
      [] u.type = "Status"           -> HandleStatus(rl, u)
      [] u.type = "TombstonedRoom"   -> HandleTombstonedRoom(rl, u)
      [] u.type = "ApplyFilter"      -> HandleApplyFilter(rl, u)

\* set_status_to_matching_rooms()
set_status_to_matching_rooms(rl) ==
    LET num_rooms == Len(rl.displayed_invited_rooms) + Len(rl.displayed_direct_rooms)
                     + Len(rl.displayed_regular_rooms)
    IN  RoomsCollectionStatus("Loaded",
            CASE num_rooms = 0 -> "No matching rooms found."
              [] num_rooms = 1 -> "Found 1 matching room."
              [] OTHER -> "Found " \o ToString(num_rooms) \o " matching rooms.")

\* The keys of the map m that satisfy the filter, in iteration order.
FilteredKeys(order, m, keywords) ==
    SelectSeq(order, LAMBDA r : r \in DOMAIN m /\ Displayed(keywords, m[r]))

\* update_displayed_rooms() regenerating the lists with the filter of the
\* previous pass.
update_displayed_rooms_StaleFilter(rl, order) ==
    LET kw == rl.display_filter
        joined == FilteredKeys(order, rl.all_joined_rooms, kw)
    IN  [rl EXCEPT
           !.displayed_invited_rooms = FilteredKeys(order, rl.invited_rooms, kw),
           !.displayed_regular_rooms =
               SelectSeq(joined, LAMBDA r : ~rl.all_joined_rooms[r].is_direct),
           !.displayed_direct_rooms =
               SelectSeq(joined, LAMBDA r : rl.all_joined_rooms[r].is_direct)]

\* update_displayed_rooms() adding the regenerated lists to the displayed
\* ones.
update_displayed_rooms_Appending(rl, order) ==
    LET kw == rl.filter_keywords
        joined == FilteredKeys(order, rl.all_joined_rooms, kw)
    IN  [rl EXCEPT
           !.display_filter = kw,
           !.displayed_invited_rooms = @ \o FilteredKeys(order, rl.invited_rooms, kw),
           !.displayed_regular_rooms =
               @ \o SelectSeq(joined, LAMBDA r : ~rl.all_joined_rooms[r].is_direct),
           !.displayed_direct_rooms =
               @ \o SelectSeq(joined, LAMBDA r : rl.all_joined_rooms[r].is_direct)]

\* update_displayed_rooms(): rebuild the filter from the keywords and
\* regenerate the three displayed lists; `order' is the iteration order of
\* the maps (every latest-event timestamp being equal, the stable sort by
\* timestamp keeps it).  The status is then set from the lists, whatever it
\* was.
update_displayed_rooms(rl, order) ==
    LET kw == rl.filter_keywords
        joined == FilteredKeys(order, rl.all_joined_rooms, kw)
        lists == [rl EXCEPT
           !.display_filter = kw,
           !.displayed_invited_rooms = FilteredKeys(order, rl.invited_rooms, kw),
           !.displayed_regular_rooms =
               SelectSeq(joined, LAMBDA r : ~rl.all_joined_rooms[r].is_direct),
           !.displayed_direct_rooms =
               SelectSeq(joined, LAMBDA r : rl.all_joined_rooms[r].is_direct)]
    IN  [lists EXCEPT
           !.status = IF kw = "" THEN update_status_rooms_count(lists)
                      ELSE set_status_to_matching_rooms(lists)]

\* ---------------------------------------------------------------- state
VARIABLES
    ext,              \* the room ids of the room list service's own vector
    turns,            \* number of turns of the loop of sync() so far
    all_known_rooms,  \* sync(): the mirror vector
    todo,             \* sync(): the steps left of the diff being handled
    cur,              \* sync(): the diff being handled and the state it met
    emitted,          \* the updates enqueued so far for the diff being handled
    sync_failed,      \* sync() has returned an error
    sync_panicked,    \* sync() has panicked
    ALL_JOINED_ROOMS, \* room id -> subscriber task of its JoinedRoomDetails
    tasks,            \* the timeline_subscriber_handler tasks that run
    next_task,        \* identity of the next task spawned
    net,              \* room id -> Add*Room emitted minus RemoveRoom emitted
    PENDING_ROOM_UPDATES,
    refresh,          \* a RefreshUI broadcast awaits the UI worker
    rooms_list,       \* the RoomsList
    hash_order,       \* iteration order of the RoomsList hash maps
    current_active_room,   \* RoomsList::current_active_room
    room_screens,          \* the room screen tasks spawned so far, in order
    TIMELINE_STATES,       \* room id -> the TimelineUiState saved for it
    endpoints_taken,       \* JoinedRoomDetails whose endpoints have been taken
    timeline_updates,      \* JoinedRoomDetails -> updates queued in its channel
    created,               \* the TimelineUiStates constructed so far
    ui_worker_panicked,    \* ui_worker() has panicked
    passes,                \* the last drain pass: who ran it, what it pushed
    REQUEST_SENDER,           \* the requests waiting in the channel of async_worker()
    async_worker_panicked,    \* async_worker() has panicked
    typing_notice_subscriber, \* JoinedRoomDetails whose typing_notice_subscriber is Some
    worker_tasks,             \* the tasks spawned by async_worker() that still run
    supervisor_stopped,       \* the supervising loop of init() has broken
    ui_worker_awaits,         \* the AddJoinedRoom update whose room store ui_worker() awaits
    USER_PROFILE_CACHE,           \* user id -> UserProfileCacheEntry
    PENDING_USER_PROFILE_UPDATES, \* the UserProfileUpdates waiting for ui_worker()
    fetch_calls               \* the calls of fetch_user_profile() that returned

vars == <<ext, turns, all_known_rooms, todo, cur, emitted, sync_failed, sync_panicked,
          ALL_JOINED_ROOMS, tasks, next_task, net, PENDING_ROOM_UPDATES, refresh,
          rooms_list, hash_order, current_active_room, room_screens, TIMELINE_STATES,
          endpoints_taken, timeline_updates, created, ui_worker_panicked, passes,
          REQUEST_SENDER, async_worker_panicked, typing_notice_subscriber, worker_tasks,
          supervisor_stopped, ui_worker_awaits, USER_PROFILE_CACHE,
          PENDING_USER_PROFILE_UPDATES, fetch_calls>>

stream_vars == <<ext, turns>>

session_vars == <<ALL_JOINED_ROOMS, tasks, next_task>>

ui_vars == <<rooms_list, hash_order>>

screen_vars == <<current_active_room, room_screens, TIMELINE_STATES, endpoints_taken,
                 timeline_updates, created, ui_worker_panicked>>

worker_vars == <<REQUEST_SENDER, async_worker_panicked, typing_notice_subscriber,
                 worker_tasks>>

loop_vars == <<supervisor_stopped, ui_worker_awaits>>

profile_vars == <<USER_PROFILE_CACHE, PENDING_USER_PROFILE_UPDATES, fetch_calls>>

\* No JoinedRoomDetails for the room.
NoTask == 0

\* No diff is being handled.
NoCur == [diff |-> NoDiff, next |-> NoDiff, before |-> <<>>,
          sessions |-> [r \in Rooms |-> NoTask], tasks |-> {}]

\* No TimelineUiState: the None of an Option<TimelineUiState>.
NoState == [room_id |-> None, update_receiver |-> NoTask]

\* No update: ui_worker() is not suspended in the AddJoinedRoom arm.
NoUpdate == [type |-> "None", room_id |-> None]

\* No drain pass has run yet.
NoPass == [who |-> "none", receiver |-> NoTask, pushes |-> 0]

\* The state after construction but for the RoomsList, which is rl; `order'
\* is the iteration order of the maps.
InitStore(order, rl) ==
    /\ ext = <<>>
    /\ turns = 0
    /\ all_known_rooms = <<>>
    /\ todo = <<>>
    /\ cur = NoCur
    /\ emitted = <<>>
    /\ sync_failed = FALSE
    /\ sync_panicked = FALSE
    /\ ALL_JOINED_ROOMS = [r \in Rooms |-> NoTask]
    /\ tasks = {}
    /\ next_task = 1
    /\ net = [r \in Rooms |-> 0]
    /\ PENDING_ROOM_UPDATES = <<>>
    /\ refresh = FALSE
    /\ rooms_list = rl
    /\ hash_order = order
    /\ current_active_room = None
    /\ room_screens = <<>>
    /\ TIMELINE_STATES = [r \in Rooms |-> NoState]
    /\ endpoints_taken = {}
    /\ timeline_updates = EmptyMap
    /\ created = {}
    /\ ui_worker_panicked = FALSE
    /\ passes = NoPass
    /\ REQUEST_SENDER = <<>>
    /\ async_worker_panicked = FALSE
    /\ typing_notice_subscriber = {}
    /\ worker_tasks = <<>>
    /\ supervisor_stopped = FALSE
    /\ ui_worker_awaits = NoUpdate
    /\ USER_PROFILE_CACHE = EmptyMap
    /\ PENDING_USER_PROFILE_UPDATES = <<>>
    /\ fetch_calls = <<>>

\* The state after construction.
InitWith(order) == InitStore(order, NewRoomsList)

Init == \E order \in {<<"r1", "r2">>, <<"r2", "r1">>} : InitWith(order)

\* -------------------------------------------------------------- sync()
\* The room a removing diff d takes out of the mirror v.
Removed(d, v) ==
    CASE d.kind = "PopFront" -> v[1]
      [] d.kind = "PopBack"  -> v[Len(v)]
      [] d.kind = "Remove"   -> v[d.index + 1]

\* The diffs that may follow the removal of `room' in its batch and give the
\* room back: Insert, PushFront or PushBack of a snapshot of the same room.
ReAddDiffs(S, e, room) ==
    {d \in ValidDiffs(S, e) : ReAdds(room, d)}

\* peekable_diffs.next(): the loop of sync() takes the next diff d from the
\* stream.  Where the code peeks at the diff after d, `peek' is what it
\* sees: a diff that gives the removed room back, or NoDiff for the end of
\* the batch and for every other diff (which the code leaves in the batch,
\* to be taken by the next turn of the loop).
\* S is the set of snapshots the room list service may deliver.
ReceiveDiff(S) ==
    /\ todo = <<>>
    /\ ~sync_failed
    /\ ~sync_panicked
    /\ turns < MaxTurns
    /\ \E d \in ValidDiffs(S, ext) :
       LET ext1 == ApplyDiff(ext, IdDiff(d)) IN
       \E peek \in (IF Peeks(d, all_known_rooms)
                    THEN {NoDiff} \cup ReAddDiffs(S, ext1, Removed(d, all_known_rooms))
                    ELSE {NoDiff}) :
          LET ops == SyncOps(d, all_known_rooms, peek) IN
          /\ todo' = ops
          /\ turns' = turns + 1
          /\ ext' = IF peek = NoDiff THEN ext1 ELSE ApplyDiff(ext1, IdDiff(peek))
          /\ cur' = IF ops = <<>> THEN NoCur
                    ELSE [diff |-> d, next |-> peek, before |-> all_known_rooms,
                          sessions |-> ALL_JOINED_ROOMS, tasks |-> tasks]
    /\ UNCHANGED <<all_known_rooms, emitted, sync_failed, sync_panicked, session_vars, net,
                   PENDING_ROOM_UPDATES, refresh, ui_vars, screen_vars, passes,
                   worker_vars, loop_vars, profile_vars>>

\* The step at the head of todo is done: the loop of sync() moves on.
Advance ==
    /\ todo' = Tail(todo)
    /\ cur' = IF Len(todo) = 1 THEN NoCur ELSE cur

\* A mutation of the mirror vector.
MirrorStep ==
    /\ todo # <<>>
    /\ Head(todo).op \in MirrorOps
    /\ Head(todo).op = "set" => Head(todo).index < Len(all_known_rooms)
    /\ LET o == Head(todo)
           v == all_known_rooms
       IN  all_known_rooms' =
             CASE o.op = "push_back"  -> Append(v, o.val)
               [] o.op = "push_front" -> <<o.val>> \o v
               [] o.op = "insert"     -> InsertAt(v, o.index, o.val)
               [] o.op = "set"        -> SetAt(v, o.index, o.val)
               [] o.op = "remove"     -> RemoveAt(v, o.index)
               [] o.op = "pop_front"  -> Tail(v)
               [] o.op = "pop_back"   -> SubSeq(v, 1, Len(v) - 1)
               [] o.op = "clear"      -> <<>>
               [] o.op = "truncate"   -> SubSeq(v, 1, IF o.index < Len(v) THEN o.index ELSE Len(v))
    /\ Advance
    /\ emitted' = IF Len(todo) = 1 THEN <<>> ELSE emitted
    /\ UNCHANGED <<stream_vars, sync_failed, sync_panicked, session_vars, net, PENDING_ROOM_UPDATES,
                   refresh, ui_vars, screen_vars, passes,
                   worker_vars, loop_vars, profile_vars>>

\* all_known_rooms.set(index, ..) with an index out of bounds: imbl's
\* Vector::set panics, which ends the task that runs sync().
MirrorSetPanics ==
    /\ todo # <<>>
    /\ Head(todo).op = "set"
    /\ Head(todo).index >= Len(all_known_rooms)
    /\ todo' = <<>>
    /\ cur' = NoCur
    /\ emitted' = <<>>
    /\ sync_panicked' = TRUE
    /\ UNCHANGED <<stream_vars, all_known_rooms, sync_failed, session_vars, net,
                   PENDING_ROOM_UPDATES, refresh, ui_vars, screen_vars, passes,
                   worker_vars, loop_vars, profile_vars>>

\* The error log of an out-of-bounds index; it changes no state of sync().
LogBug ==
    /\ todo # <<>>
    /\ Head(todo).op = "log_bug"
    /\ Advance
    /\ emitted' = IF Len(todo) = 1 THEN <<>> ELSE emitted
    /\ UNCHANGED <<stream_vars, all_known_rooms, sync_failed, sync_panicked, session_vars,
                   net, PENDING_ROOM_UPDATES, refresh, ui_vars, screen_vars, passes,
                   worker_vars, loop_vars, profile_vars>>

\* The Set and Remove diffs whose index is out of bounds for the mirror v.
OutOfBoundsDiffs(S, v) ==
       {Diff("Set", i, <<x>>) : i \in Len(v)..(Len(v) + 1), x \in S}
    \cup {Diff("Remove", i, <<>>) : i \in Len(v)..(Len(v) + 1)}

\* peekable_diffs.next() yields a Set or Remove whose index is out of bounds
\* (a fault of the room list service; its own vector is left as it is).
ReceiveBadDiff(S) ==
    /\ todo = <<>>
    /\ ~sync_failed
    /\ ~sync_panicked
    /\ turns < MaxTurns
    /\ \E d \in OutOfBoundsDiffs(S, all_known_rooms) :
          /\ todo' = SyncOps(d, all_known_rooms, NoDiff)
          /\ cur' = [diff |-> d, next |-> NoDiff, before |-> all_known_rooms,
                     sessions |-> ALL_JOINED_ROOMS, tasks |-> tasks]
    /\ turns' = turns + 1
    /\ UNCHANGED <<ext, all_known_rooms, emitted, sync_failed, sync_panicked, session_vars,
                   net, PENDING_ROOM_UPDATES, refresh, ui_vars, screen_vars, passes,
                   worker_vars, loop_vars, profile_vars>>

\* add_new_room(): the timeline of a Joined room is built and its
\* timeline_subscriber_handler task is spawned.
BuildTimeline ==
    /\ todo # <<>>
    /\ Head(todo).op = "build_timeline"
    /\ tasks' = tasks \cup {next_task}
    /\ next_task' = next_task + 1
    /\ Advance
    /\ UNCHANGED <<stream_vars, all_known_rooms, emitted, sync_failed, sync_panicked, ALL_JOINED_ROOMS,
                   net, PENDING_ROOM_UPDATES, refresh, ui_vars, screen_vars, passes,
                   worker_vars, loop_vars, profile_vars>>

\* A failed build after which sync() carries on with the diff.
BuildTimelineFails_Continue ==
    /\ todo # <<>>
    /\ Head(todo).op = "build_timeline"
    /\ Advance
    /\ sync_failed' = TRUE
    /\ UNCHANGED <<stream_vars, all_known_rooms, emitted, sync_panicked, session_vars, net,
                   PENDING_ROOM_UPDATES, refresh, ui_vars, screen_vars, passes,
                   worker_vars, loop_vars, profile_vars>>

\* add_new_room(): building the timeline fails; the error leaves sync().
BuildTimelineFails ==
    /\ todo # <<>>
    /\ Head(todo).op = "build_timeline"
    /\ todo' = <<>>
    /\ cur' = NoCur
    /\ emitted' = <<>>
    /\ sync_failed' = TRUE
    /\ UNCHANGED <<stream_vars, all_known_rooms, sync_panicked, session_vars, net, PENDING_ROOM_UPDATES,
                   refresh, ui_vars, screen_vars, passes,
                   worker_vars, loop_vars, profile_vars>>

\* insert_room_details() dropping the details instead of storing them.
insert_room_details_Lost(map, running, r, t) ==
    [map |-> map, running |-> running \ {t}]

\* insert_room_details(): the details just built are stored under the room
\* id; details they replace are dropped, which aborts their task.
insert_room_details(map, running, r, t) ==
    [map |-> [map EXCEPT ![r] = t], running |-> running \ {map[r]}]

InsertRoomDetails ==
    /\ todo # <<>>
    /\ Head(todo).op = "insert_room_details"
    /\ LET res == insert_room_details(ALL_JOINED_ROOMS, tasks, Head(todo).room, next_task - 1)
       IN  /\ ALL_JOINED_ROOMS' = res.map
           /\ tasks' = res.running
    /\ Advance
    /\ UNCHANGED <<stream_vars, all_known_rooms, emitted, sync_failed, sync_panicked, next_task, net,
                   PENDING_ROOM_UPDATES, refresh, ui_vars, screen_vars, passes,
                   worker_vars, loop_vars, profile_vars>>

\* remove_room_details(): the details leave the map and are dropped, which
\* aborts their task (JoinedRoomDetails::drop).
remove_room_details(map, running, r) ==
    [map |-> [map EXCEPT ![r] = NoTask], running |-> running \ {map[r]}]

RemoveRoomDetails ==
    /\ todo # <<>>
    /\ Head(todo).op = "remove_room_details"
    /\ LET res == remove_room_details(ALL_JOINED_ROOMS, tasks, Head(todo).room)
       IN  /\ ALL_JOINED_ROOMS' = res.map
           /\ tasks' = res.running
    /\ Advance
    /\ UNCHANGED <<stream_vars, all_known_rooms, emitted, sync_failed, sync_panicked, next_task, net,
                   PENDING_ROOM_UPDATES, refresh, ui_vars, screen_vars, passes,
                   worker_vars, loop_vars, profile_vars>>

\* clear_all_rooms(): every JoinedRoomDetails is dropped.
clear_all_rooms(map, running) ==
    [map |-> [r \in Rooms |-> NoTask], running |-> running \ {map[r] : r \in Rooms}]

ClearAllRooms ==
    /\ todo # <<>>
    /\ Head(todo).op = "clear_all_rooms"
    /\ LET res == clear_all_rooms(ALL_JOINED_ROOMS, tasks)
       IN  /\ ALL_JOINED_ROOMS' = res.map
           /\ tasks' = res.running
    /\ Advance
    /\ UNCHANGED <<stream_vars, all_known_rooms, emitted, sync_failed, sync_panicked, next_task, net,
                   PENDING_ROOM_UPDATES, refresh, ui_vars, screen_vars, passes,
                   worker_vars, loop_vars, profile_vars>>

\* The change of a room's add/remove balance made by the update u.
NetChange(u) ==
    CASE u.type \in {"AddJoinedRoom", "AddInvitedRoom"} -> 1
      [] u.type = "RemoveRoom" -> 0 - 1
      [] OTHER -> 0

\* enqueue_rooms_list_update(): push the update, broadcast RefreshUI.
EnqueueRoomsListUpdate ==
    /\ todo # <<>>
    /\ Head(todo).op = "enqueue"
    /\ LET u == Head(todo).val IN
       /\ PENDING_ROOM_UPDATES' = Append(PENDING_ROOM_UPDATES, u)
       /\ emitted' = IF Len(todo) = 1 THEN <<>> ELSE Append(emitted, u)
       /\ net' = IF u.room_id \in Rooms
                 THEN [net EXCEPT ![u.room_id] = @ + NetChange(u)] ELSE net
    /\ refresh' = TRUE
    /\ Advance
    /\ UNCHANGED <<stream_vars, all_known_rooms, sync_failed, sync_panicked, session_vars, ui_vars,
                   screen_vars, passes,
                   worker_vars, loop_vars, profile_vars>>

\* The snapshots pushed to the frontend at the end of a drain pass that
\* dequeued num_updates updates, one per update.
PushesAfter_PerUpdate(num_updates) == num_updates

\* if num_updates > 0 { self.update_frontend_state(); }: the snapshots
\* pushed to the frontend at the end of a drain pass.
PushesAfter(num_updates) == IF num_updates > 0 THEN 1 ELSE 0

\* ------------------------------------------------------- user_profile.rs
\* The user ids the frontend asks for.
Users == {"u1", "u2"}

\* The entry of a user whose profile was requested and is awaited.
Requested == [state |-> "Requested"]

\* UserProfileUpdate::apply_to_cache(), for the two updates that the task of
\* GetUserProfile enqueues: the entry of the user becomes, or stays, Loaded;
\* Full adds the room to the rooms of the entry, UserProfileOnly starts a
\* new entry without rooms and leaves the rooms of a loaded one.
apply_to_cache(update, cache) ==
    LET u == update.new_profile.user_id
        loaded == u \in DOMAIN cache /\ cache[u].state = "Loaded"
        rooms == IF loaded THEN cache[u].rooms ELSE {}
    IN  MapInsert(cache, u,
                  [state |-> "Loaded",
                   user_profile |-> update.new_profile,
                   rooms |-> IF update.type = "Full"
                             THEN rooms \cup {update.room_id}
                             ELSE rooms])

RECURSIVE process_user_profile_updates(_, _)
\* process_user_profile_updates(): under the write lock of the cache, the
\* queued updates are popped and applied in order.
process_user_profile_updates(cache, q) ==
    IF q = <<>> THEN cache
    ELSE process_user_profile_updates(apply_to_cache(Head(q), cache), Tail(q))

\* fetch_user_profile() asking again for a profile that is still awaited.
fetch_user_profile_AskAgain(cache, user_id) ==
    IF user_id \in DOMAIN cache /\ cache[user_id].state = "Loaded"
    THEN [returned |-> TRUE, submits |-> FALSE, cache |-> cache]
    ELSE [returned |-> FALSE, submits |-> TRUE,
          cache |-> MapInsert(cache, user_id, Requested)]

\* fetch_user_profile(), under the write lock of the cache: what it
\* returns, whether it submits GetUserProfile, and the cache it leaves.
fetch_user_profile(cache, user_id) ==
    IF user_id \in DOMAIN cache
    THEN [returned |-> TRUE, submits |-> FALSE, cache |-> cache]
    ELSE [returned |-> FALSE, submits |-> TRUE,
          cache |-> MapInsert(cache, user_id, Requested)]

\* ------------------------------------------------------------ ui_worker()
RECURSIVE HandleAll(_, _)
\* The loop of handle_rooms_list_updates(): apply the queued updates in order.
HandleAll(rl, q) ==
    IF q = <<>> THEN rl ELSE HandleAll(HandleUpdate(rl, Head(q)), Tail(q))

\* handle_rooms_list_updates(): pop updates until the queue is empty, then
\* regenerate the displayed lists when at least one update was handled.
handle_rooms_list_updates(rl, q, order) ==
    IF Len(q) > 0 THEN update_displayed_rooms(HandleAll(rl, q), order) ELSE rl

\* ui_subscriber.recv() in ui_worker(): a RefreshUI broadcast runs one pass
\* of handle_rooms_list_updates() and then process_user_profile_updates().
\* The worker holds the lock of the RoomsList for the whole pass, so the
\* pass is one step for every observer of the RoomsList.
UiPass ==
    /\ refresh
    /\ ~ui_worker_panicked
    /\ ui_worker_awaits = NoUpdate
    /\ refresh' = FALSE
    /\ rooms_list' = handle_rooms_list_updates(rooms_list, PENDING_ROOM_UPDATES, hash_order)
    /\ passes' = [who |-> "rooms_list", receiver |-> NoTask,
                  pushes |-> PushesAfter(Len(PENDING_ROOM_UPDATES))]
    /\ PENDING_ROOM_UPDATES' = <<>>
    /\ USER_PROFILE_CACHE' =
         process_user_profile_updates(USER_PROFILE_CACHE, PENDING_USER_PROFILE_UPDATES)
    /\ PENDING_USER_PROFILE_UPDATES' = <<>>
    /\ UNCHANGED <<stream_vars, all_known_rooms, todo, cur, sync_failed, sync_panicked, session_vars,
                   emitted, net, hash_order, screen_vars,
                   worker_vars, loop_vars, fetch_calls>>

Reconciler ==
    \/ MirrorStep
    \/ BuildTimeline
    \/ BuildTimelineFails
    \/ InsertRoomDetails
    \/ RemoveRoomDetails
    \/ ClearAllRooms
    \/ EnqueueRoomsListUpdate

Next ==
    \/ ReceiveDiff(LifecycleRooms)
    \/ Reconciler
    \/ UiPass

Spec == Init /\ [][Next]_vars

\* filter_room_list(): the frontend asks for the room list to be filtered;
\* the request waits in the queue until the UI worker handles it.
FilterRoomList ==
    /\ \A i \in 1..Len(PENDING_ROOM_UPDATES) : PENDING_ROOM_UPDATES[i].type # "ApplyFilter"
    /\ \E kw \in Keywords :
          PENDING_ROOM_UPDATES' = Append(PENDING_ROOM_UPDATES, ApplyFilter(kw))
    /\ refresh' = TRUE
    /\ UNCHANGED <<stream_vars, all_known_rooms, todo, cur, emitted, sync_failed, sync_panicked,
                   session_vars, net, ui_vars, screen_vars, passes,
                   worker_vars, loop_vars, profile_vars>>

NextDetail ==
    \/ ReceiveDiff(DetailRooms)
    \/ Reconciler
    \/ UiPass
    \/ FilterRoomList

NextFaulty ==
    \/ ReceiveDiff(LifecycleRooms)
    \/ ReceiveBadDiff(LifecycleRooms)
    \/ Reconciler
    \/ LogBug
    \/ MirrorSetPanics
    \/ UiPass

\* A room list service that may deliver indices out of bounds.
SpecFaulty == Init /\ [][NextFaulty]_vars

NextFields ==
    \/ ReceiveDiff(FieldRooms)
    \/ Reconciler
    \/ UiPass

\* One room whose tombstone flag and topic vary.
SpecFields == Init /\ [][NextFields]_vars

\* One room whose details vary, and a frontend that filters the list.
SpecDetail == InitWith(<<"r1", "r2">>) /\ [][NextDetail]_vars

\* ------------------------------------------- ui_worker(), await by await
\* The AddJoinedRoom arm comes to
\* send_room_creation_request_and_await_response(): the room is new to
\* all_joined_rooms and the display filter lets it through.
Awaits(rl, u) ==
    /\ u.type = "AddJoinedRoom"
    /\ u.room_id \notin DOMAIN rl.all_joined_rooms
    /\ Displayed(rl.display_filter, u.info)

RECURSIVE FirstAwait(_, _, _)
\* The place in the queue q, from i on, of the first update at which the
\* loop of handle_rooms_list_updates() started from rl suspends; 0 when it
\* runs to the end of q.
FirstAwait(rl, q, i) ==
    IF i > Len(q) THEN 0
    ELSE IF Awaits(rl, q[i]) THEN i
    ELSE FirstAwait(HandleUpdate(rl, q[i]), q, i + 1)

\* The handling of a pass, up to its first await or to its end, that handles
\* the update at the head of the queue and leaves the others where they are.
RunPass_HeadOnly(rl, popped) ==
    LET q == PENDING_ROOM_UPDATES IN
    /\ rooms_list' = IF q = <<>> THEN rl
                     ELSE update_displayed_rooms(HandleUpdate(rl, Head(q)), hash_order)
    /\ ui_worker_awaits' = NoUpdate
    /\ PENDING_ROOM_UPDATES' = IF q = <<>> THEN q ELSE Tail(q)
    /\ passes' = [who |-> "rooms_list", receiver |-> NoTask,
                  pushes |-> PushesAfter(popped + Len(q))]
    /\ UNCHANGED <<USER_PROFILE_CACHE, PENDING_USER_PROFILE_UPDATES>>

\* The loop of handle_rooms_list_updates() from rl over the queue, popped
\* updates having been handled before: up to the next await, where the
\* update popped stays in hand, or else to the end of the pass.  The insert
\* that the arm makes before its await shows in rooms_list when the arm
\* completes; the lock, held all along, hides the difference.
RunPass(rl, popped) ==
    LET q == PENDING_ROOM_UPDATES
        at == FirstAwait(rl, q, 1)
    IN  IF at > 0
        THEN /\ rooms_list' = HandleAll(rl, SubSeq(q, 1, at - 1))
             /\ ui_worker_awaits' = q[at]
             /\ PENDING_ROOM_UPDATES' = SubSeq(q, at + 1, Len(q))
             /\ UNCHANGED <<passes, USER_PROFILE_CACHE, PENDING_USER_PROFILE_UPDATES>>
        ELSE /\ rooms_list' = IF popped + Len(q) > 0
                              THEN update_displayed_rooms(HandleAll(rl, q), hash_order)
                              ELSE rl
             /\ ui_worker_awaits' = NoUpdate
             /\ PENDING_ROOM_UPDATES' = <<>>
             /\ passes' = [who |-> "rooms_list", receiver |-> NoTask,
                           pushes |-> PushesAfter(popped + Len(q))]
             /\ USER_PROFILE_CACHE' =
                  process_user_profile_updates(USER_PROFILE_CACHE,
                                               PENDING_USER_PROFILE_UPDATES)
             /\ PENDING_USER_PROFILE_UPDATES' = <<>>

\* ui_subscriber.recv() in ui_worker(): the RoomsList is locked and the
\* pass runs up to its first await on the frontend, or to its end.
UiPassBegins ==
    /\ refresh
    /\ ~ui_worker_panicked
    /\ ui_worker_awaits = NoUpdate
    /\ refresh' = FALSE
    /\ RunPass(rooms_list, 0)
    /\ UNCHANGED <<stream_vars, all_known_rooms, todo, cur, sync_failed, sync_panicked,
                   session_vars, emitted, net, hash_order, screen_vars, worker_vars,
                   supervisor_stopped, fetch_calls>>

\* receiver.recv() in send_room_creation_request_and_await_response(): the
\* frontend answers that the store of the room is created; the arm
\* completes and the pass goes on.
RoomCreated ==
    /\ ui_worker_awaits # NoUpdate
    /\ RunPass(HandleUpdate(rooms_list, ui_worker_awaits), 1)
    /\ UNCHANGED <<stream_vars, all_known_rooms, todo, cur, sync_failed, sync_panicked,
                   session_vars, emitted, net, refresh, hash_order, screen_vars,
                   worker_vars, supervisor_stopped, fetch_calls>>

NextLock ==
    \/ ReceiveDiff(DrainRooms)
    \/ Reconciler
    \/ UiPassBegins
    \/ RoomCreated

\* One room, and a UI worker followed from await to await.
SpecLock == InitWith(<<"r1", "r2">>) /\ [][NextLock]_vars

\* The same, with a UI worker that is scheduled whenever a RefreshUI
\* broadcast awaits it (the arm of select! is polled each time ui_worker()
\* runs) and a frontend that answers every RoomCreate request.
SpecFair ==
    /\ SpecLock
    /\ WF_vars(UiPassBegins)
    /\ WF_vars(RoomCreated)

\* ------------------------------------------------------------------ init()
\* The supervising loop of init(): the task of async_main_loop() has ended
\* with the error of sync(); the loop enqueues the Error status and breaks.
\* ui_worker(), a task of its own, goes on.
MainLoopEnded ==
    /\ sync_failed
    /\ ~supervisor_stopped
    /\ supervisor_stopped' = TRUE
    /\ PENDING_ROOM_UPDATES' =
         Append(PENDING_ROOM_UPDATES, Status(RoomsCollectionStatus("Error", "sync error")))
    /\ refresh' = TRUE
    /\ UNCHANGED <<stream_vars, all_known_rooms, todo, cur, emitted, sync_failed,
                   sync_panicked, session_vars, net, ui_vars, screen_vars, passes,
                   worker_vars, ui_worker_awaits, profile_vars>>

NextStatus ==
    \/ ReceiveDiff(LifecycleRooms)
    \/ Reconciler
    \/ UiPass
    \/ MainLoopEnded

\* The reconciler, the UI worker and the supervising loop.
SpecStatus == Init /\ [][NextStatus]_vars

\* ------------------------------------------------- update_displayed_rooms()
\* Snapshots of two rooms, Invited or Joined, whose name and is_direct flag
\* vary.
RecomputeRooms ==
    {Snapshot(r, st, dir, FALSE, None, nm, None) :
        r \in Rooms, st \in {"Invited", "Joined"}, dir \in BOOLEAN, nm \in Keywords}

\* The RoomsList that holds the rooms of S and filters by kw.
StoreOf(S, kw) ==
    LET ids(st) == {x.room_id : x \in {y \in S : y.state = st}}
        of(r) == CHOOSE x \in S : x.room_id = r
    IN  [NewRoomsList EXCEPT
           !.invited_rooms = [r \in ids("Invited") |-> InvitedRoomInfo(of(r))],
           !.all_joined_rooms = [r \in ids("Joined") |-> JoinedRoomInfo(of(r))],
           !.filter_keywords = kw]

\* A pass of handle_rooms_list_updates() has come to the end of its loop:
\* the lists are those the previous pass left for the keywords kw0, the
\* keywords are those of the ApplyFilter that this pass handled.
InitRecompute ==
    \E S \in SUBSET RecomputeRooms, kw0 \in Keywords \cup {""}, kw \in Keywords \cup {""},
       order \in {<<"r1", "r2">>, <<"r2", "r1">>} :
       /\ \A x, y \in S : x.room_id = y.room_id => x = y
       /\ kw # kw0
       /\ InitStore(order, [update_displayed_rooms(StoreOf(S, kw0), order)
                               EXCEPT !.filter_keywords = kw])

\* self.update_displayed_rooms() at the end of a pass.
UpdateDisplayedRooms ==
    /\ rooms_list' = update_displayed_rooms(rooms_list, hash_order)
    /\ UNCHANGED <<stream_vars, all_known_rooms, todo, cur, emitted, sync_failed,
                   sync_panicked, session_vars, net, PENDING_ROOM_UPDATES, refresh,
                   hash_order, screen_vars, passes, worker_vars, loop_vars, profile_vars>>

\* The lists of a store recomputed, over stores of up to two rooms.
SpecRecompute == InitRecompute /\ [][UpdateDisplayedRooms]_vars

\* ------------------------------------------------------------ room screens
\* Most room screen tasks spawned in a behaviour.
MaxScreens == 3

\* Most updates waiting in the channel of one JoinedRoomDetails.
MaxQueued == 2

\* Snapshots of two rooms that are Joined.
ScreenRooms ==
    {Snapshot(r, "Joined", FALSE, FALSE, None, "n1", None) : r \in Rooms}

\* ----- MatrixRequest (models/async_requests.rs), by the fields the worker reads
Request(type, r) == [type |-> type, room_id |-> r]

Subscription(type, r, subscribe) ==
    [type |-> type, room_id |-> r, subscribe |-> subscribe]

PaginateRoomTimeline(r, num_events, direction) ==
    [type |-> "PaginateRoomTimeline", room_id |-> r, num_events |-> num_events,
     direction |-> direction]

\* The timelines a TimelineUpdate carries: empty, or of one event.
Items == {<<>>, <<"e1">>}

\* TimelineUpdate (events/timeline.rs), by the fields process_timeline_updates()
\* reads; a PaginationDirection is Backwards or Forwards.  NewUnreadMessagesCount, RoomMembersListFetched, MediaFetched,
\* MessageEdited, UserPowerLevels and OwnUserReadReceipt touch no field kept
\* here and go the way of EventDetailsFetched.
TimelineUpdates ==
    {[type |-> "FirstUpdate", initial_items |-> i] : i \in Items}
    \cup {[type |-> "NewItems", new_items |-> i, clear_cache |-> c] :
             i \in Items, c \in BOOLEAN}
    \cup {[type |-> "TargetEventFound"]}
    \cup {[type |-> "PaginationRunning", direction |-> d] :
             d \in {"Backwards", "Forwards"}}
    \cup {[type |-> "PaginationIdle", fully_paginated |-> f, direction |-> d] :
             f \in BOOLEAN, d \in {"Backwards", "Forwards"}}
    \cup {[type |-> "TypingUsers"], [type |-> "EventDetailsFetched"]}

\* The TimelineUiState show_timeline() constructs for room r, whose
\* update_receiver is the receiving end of the channel of the
\* JoinedRoomDetails t.
TimelineUiState(r, t) ==
    [room_id |-> r, update_receiver |-> t, fully_paginated |-> FALSE, items |-> <<>>]

\* RoomScreen::new() in a task just spawned: no tl_state yet, and the
\* oneshot of the task not fired.
RoomScreen(r) ==
    [room_id |-> r, pc |-> "spawned", tl_state |-> NoState, cancelled |-> FALSE]

\* The updates waiting in the channel of the JoinedRoomDetails t, q being
\* the channels that hold some.
Receiver(q, t) == IF t \in DOMAIN q THEN q[t] ELSE <<>>

Count(q, t) == Len(Receiver(q, t))

Queued(t) == Count(timeline_updates, t)

\* update_receiver.try_recv() until the channel of t is empty.
Drain(t) == MapRemove(timeline_updates, t)

\* ProcessUpdate() with a PaginationIdle arm that does not look at the
\* direction.
ProcessUpdate_AnyDirection(st, u) ==
    CASE u.type = "FirstUpdate" ->
           [st EXCEPT !.tl.fully_paginated = FALSE, !.tl.items = u.initial_items]
      [] u.type = "NewItems" ->
           [tl |-> [st.tl EXCEPT !.fully_paginated = IF u.clear_cache THEN FALSE ELSE @,
                                 !.items = u.new_items],
            should_continue_backwards_pagination |->
                IF u.new_items = <<>> /\ st.tl.items # <<>>
                THEN TRUE
                ELSE st.should_continue_backwards_pagination]
      [] u.type = "TargetEventFound" ->
           [st EXCEPT !.should_continue_backwards_pagination = FALSE]
      [] u.type = "PaginationIdle" ->
           [st EXCEPT !.tl.fully_paginated = u.fully_paginated]
      [] OTHER -> st

\* One arm of the match of process_timeline_updates(): st holds the
\* TimelineUiState and the local should_continue_backwards_pagination.
\* TypingUsers only assigns the local typing_users, which is formatted into
\* a string nobody reads.
ProcessUpdate(st, u) ==
    CASE u.type = "FirstUpdate" ->
           [st EXCEPT !.tl.fully_paginated = FALSE, !.tl.items = u.initial_items]
      [] u.type = "NewItems" ->
           [tl |-> [st.tl EXCEPT !.fully_paginated = IF u.clear_cache THEN FALSE ELSE @,
                                 !.items = u.new_items],
            should_continue_backwards_pagination |->
                IF u.new_items = <<>> /\ st.tl.items # <<>>
                THEN TRUE
                ELSE st.should_continue_backwards_pagination]
      [] u.type = "TargetEventFound" ->
           [st EXCEPT !.should_continue_backwards_pagination = FALSE]
      [] u.type = "PaginationIdle" ->
           IF u.direction = "Backwards"
           THEN [st EXCEPT !.tl.fully_paginated = u.fully_paginated]
           ELSE st
      [] OTHER -> st

\* The while loop of process_timeline_updates() over the updates q.
RECURSIVE ProcessUpdates(_, _)
ProcessUpdates(st, q) ==
    IF q = <<>> THEN st ELSE ProcessUpdates(ProcessUpdate(st, Head(q)), Tail(q))

\* process_timeline_updates() of a screen whose state is tl and whose
\* channel holds q, up to the end of the loop.
process_timeline_updates(tl, q) ==
    ProcessUpdates([tl |-> tl, should_continue_backwards_pagination |-> FALSE], q)

\* The request process_timeline_updates() submits after its loop.
ContinuePagination(st) ==
    IF st.should_continue_backwards_pagination
    THEN <<PaginateRoomTimeline(st.tl.room_id, 50, "Backwards")>>
    ELSE <<>>

\* The requests show_timeline() submits for room r once the screen has its
\* tl_state, in their order; the pagination request only for a state just
\* constructed (which is never fully paginated).
ShowRequests(r, first_time) ==
    <<Subscription("SubscribeToTypingNotices", r, TRUE),
      Subscription("SubscribeToOwnUserReadReceiptsChanged", r, TRUE)>>
    \o (IF first_time THEN <<PaginateRoomTimeline(r, 50, "Backwards")>> ELSE <<>>)
    \o <<Request("SyncRoomMemberList", r)>>

\* take_timeline_endpoints() finds the endpoints of room r: the room has
\* JoinedRoomDetails and nobody took their endpoints yet.
EndpointsThere(r) ==
    /\ ALL_JOINED_ROOMS[r] # NoTask
    /\ ALL_JOINED_ROOMS[r] \notin endpoints_taken

\* handle_current_active_room(), run by ui_worker() for a room the frontend
\* displays: nothing when the room is the active one; else the oneshot of
\* the task of the previous room is fired (which panics when that task has
\* ended and dropped the receiving end), and the task of the new room is
\* spawned at once.
HandleCurrentActiveRoom ==
    /\ ~ui_worker_panicked
    /\ ui_worker_awaits = NoUpdate
    /\ Len(room_screens) < MaxScreens
    /\ \E r \in DOMAIN rooms_list.all_joined_rooms :
          /\ current_active_room # r
          /\ LET n == Len(room_screens) IN
             IF n > 0 /\ room_screens[n].pc = "panicked"
             THEN /\ ui_worker_panicked' = TRUE
                  /\ UNCHANGED <<current_active_room, room_screens>>
             ELSE /\ current_active_room' = r
                  /\ room_screens' =
                       Append(IF n > 0
                              THEN [room_screens EXCEPT ![n].cancelled = TRUE]
                              ELSE room_screens,
                              RoomScreen(r))
                  /\ UNCHANGED ui_worker_panicked
    /\ UNCHANGED <<stream_vars, all_known_rooms, todo, cur, emitted, sync_failed,
                   sync_panicked, session_vars, net, PENDING_ROOM_UPDATES, refresh,
                   ui_vars, TIMELINE_STATES, endpoints_taken, timeline_updates,
                   created, passes,
                   worker_vars, loop_vars, profile_vars>>

\* show_timeline(), up to TIMELINE_STATES.lock().unwrap().remove(&room_id):
\* GetRoomPowerLevels is submitted first; a state saved for the room is
\* reclaimed and becomes the tl_state of the screen, which submits the
\* other requests and then waits in its loop; without one the task goes
\* on to take_timeline_endpoints().  submit_async_request() panics when
\* async_worker() has ended.
ShowTimeline ==
    \E i \in 1..Len(room_screens) :
       LET r == room_screens[i].room_id IN
       /\ room_screens[i].pc = "spawned"
       /\ IF async_worker_panicked
          THEN /\ room_screens' = [room_screens EXCEPT ![i].pc = "panicked"]
               /\ UNCHANGED <<TIMELINE_STATES, REQUEST_SENDER>>
          ELSE IF TIMELINE_STATES[r] # NoState
          THEN /\ room_screens' = [room_screens EXCEPT ![i].pc = "shown",
                                                      ![i].tl_state = TIMELINE_STATES[r]]
               /\ TIMELINE_STATES' = [TIMELINE_STATES EXCEPT ![r] = NoState]
               /\ REQUEST_SENDER' =
                    Append(REQUEST_SENDER, Request("GetRoomPowerLevels", r))
                    \o ShowRequests(r, FALSE)
          ELSE /\ room_screens' = [room_screens EXCEPT ![i].pc = "first_time"]
               /\ REQUEST_SENDER' =
                    Append(REQUEST_SENDER, Request("GetRoomPowerLevels", r))
               /\ UNCHANGED TIMELINE_STATES
       /\ UNCHANGED <<stream_vars, all_known_rooms, todo, cur, emitted, sync_failed,
                      sync_panicked, session_vars, net, PENDING_ROOM_UPDATES, refresh,
                      ui_vars, current_active_room, endpoints_taken, timeline_updates,
                      created, ui_worker_panicked, passes,
                      async_worker_panicked, typing_notice_subscriber, worker_tasks,
                      loop_vars, profile_vars>>

\* show_timeline() of a room without saved state, from
\* take_timeline_endpoints() on: with the endpoints a fresh TimelineUiState
\* is constructed, the requests of the screen are submitted, the updates
\* already in its channel are drained (process_timeline_updates()) and the
\* screen waits in its loop; without them the expect() panics, which ends
\* the task.
TakeTimelineEndpoints ==
    \E i \in 1..Len(room_screens) :
       LET r == room_screens[i].room_id
           t == ALL_JOINED_ROOMS[r]
           st == process_timeline_updates(TimelineUiState(r, t),
                                          Receiver(timeline_updates, t))
       IN
       /\ room_screens[i].pc = "first_time"
       /\ IF ~EndpointsThere(r)
          THEN /\ room_screens' = [room_screens EXCEPT ![i].pc = "panicked"]
               /\ UNCHANGED <<endpoints_taken, created, timeline_updates, passes,
                              REQUEST_SENDER>>
          ELSE IF async_worker_panicked
          THEN /\ room_screens' = [room_screens EXCEPT ![i].pc = "panicked"]
               /\ endpoints_taken' = endpoints_taken \cup {t}
               /\ created' = created \cup {TimelineUiState(r, t)}
               /\ UNCHANGED <<timeline_updates, passes, REQUEST_SENDER>>
          ELSE /\ room_screens' = [room_screens EXCEPT ![i].pc = "shown",
                                                      ![i].tl_state = st.tl]
               /\ endpoints_taken' = endpoints_taken \cup {t}
               /\ created' = created \cup {TimelineUiState(r, t)}
               /\ REQUEST_SENDER' =
                    REQUEST_SENDER \o ShowRequests(r, TRUE) \o ContinuePagination(st)
               /\ timeline_updates' = Drain(t)
               /\ passes' = [who |-> "room_screen", receiver |-> t,
                             pushes |-> PushesAfter(Queued(t))]
       /\ UNCHANGED <<stream_vars, all_known_rooms, todo, cur, emitted, sync_failed,
                      sync_panicked, session_vars, net, PENDING_ROOM_UPDATES, refresh,
                      ui_vars, current_active_room, TIMELINE_STATES, ui_worker_panicked,
                      async_worker_panicked, typing_notice_subscriber, worker_tasks,
                      loop_vars, profile_vars>>

\* ui_subscriber.recv() in the loop of a room screen task: a RefreshUI
\* broadcast (there are many senders, so one may come at any time) runs one
\* pass of process_timeline_updates().
ProcessTimelineUpdates ==
    \E i \in 1..Len(room_screens) :
       LET t == room_screens[i].tl_state.update_receiver
           st == process_timeline_updates(room_screens[i].tl_state,
                                          Receiver(timeline_updates, t))
       IN
       /\ room_screens[i].pc = "shown"
       /\ timeline_updates' = Drain(t)
       /\ IF async_worker_panicked /\ st.should_continue_backwards_pagination
          THEN /\ room_screens' = [room_screens EXCEPT ![i].pc = "panicked",
                                                      ![i].tl_state = st.tl]
               /\ UNCHANGED <<REQUEST_SENDER, passes>>
          ELSE /\ room_screens' = [room_screens EXCEPT ![i].tl_state = st.tl]
               /\ REQUEST_SENDER' = REQUEST_SENDER \o ContinuePagination(st)
               /\ passes' = [who |-> "room_screen", receiver |-> t,
                             pushes |-> PushesAfter(Queued(t))]
       /\ UNCHANGED <<stream_vars, all_known_rooms, todo, cur, emitted, sync_failed,
                      sync_panicked, session_vars, net, PENDING_ROOM_UPDATES, refresh,
                      ui_vars, current_active_room, TIMELINE_STATES,
                      endpoints_taken, created, ui_worker_panicked,
                      async_worker_panicked, typing_notice_subscriber, worker_tasks,
                      loop_vars, profile_vars>>

\* The loop of a room screen task sees its oneshot fired and breaks; the
\* RoomScreen is dropped, and Drop runs hide_timeline(), whose save_state()
\* moves tl_state into TIMELINE_STATES (replacing what is there) and which
\* then submits the two requests that unsubscribe.
HideTimeline ==
    \E i \in 1..Len(room_screens) :
       LET r == room_screens[i].room_id IN
       /\ room_screens[i].pc = "shown"
       /\ room_screens[i].cancelled
       /\ TIMELINE_STATES' = [TIMELINE_STATES EXCEPT ![r] = room_screens[i].tl_state]
       /\ IF async_worker_panicked
          THEN /\ room_screens' = [room_screens EXCEPT ![i].pc = "panicked",
                                                      ![i].tl_state = NoState]
               /\ UNCHANGED REQUEST_SENDER
          ELSE /\ room_screens' = [room_screens EXCEPT ![i].pc = "done",
                                                      ![i].tl_state = NoState]
               /\ REQUEST_SENDER' =
                    REQUEST_SENDER
                    \o <<Subscription("SubscribeToTypingNotices", r, FALSE),
                         Subscription("SubscribeToOwnUserReadReceiptsChanged", r, FALSE)>>
       /\ UNCHANGED <<stream_vars, all_known_rooms, todo, cur, emitted, sync_failed,
                      sync_panicked, session_vars, net, PENDING_ROOM_UPDATES, refresh,
                      ui_vars, current_active_room, endpoints_taken, timeline_updates,
                      created, ui_worker_panicked, passes,
                      async_worker_panicked, typing_notice_subscriber, worker_tasks,
                      loop_vars, profile_vars>>

\* hide_timeline() statement by statement, as the tasks of a multi-threaded
\* runtime see it.  First save_state(): the tl_state of the screen is taken
\* and inserted into TIMELINE_STATES, whose lock is released at once.
SaveState ==
    \E i \in 1..Len(room_screens) :
       LET r == room_screens[i].room_id IN
       /\ room_screens[i].pc = "shown"
       /\ room_screens[i].cancelled
       /\ TIMELINE_STATES' = [TIMELINE_STATES EXCEPT ![r] = room_screens[i].tl_state]
       /\ room_screens' = [room_screens EXCEPT ![i].pc = "hiding",
                                               ![i].tl_state = NoState]
       /\ UNCHANGED <<stream_vars, all_known_rooms, todo, cur, emitted, sync_failed,
                      sync_panicked, session_vars, net, PENDING_ROOM_UPDATES, refresh,
                      ui_vars, current_active_room, endpoints_taken, timeline_updates,
                      created, ui_worker_panicked, passes, worker_vars,
                      loop_vars, profile_vars>>

\* Then the two calls of submit_async_request() of hide_timeline(), after
\* which the task ends.
HideTimelineUnsubscribes ==
    \E i \in 1..Len(room_screens) :
       LET r == room_screens[i].room_id IN
       /\ room_screens[i].pc = "hiding"
       /\ IF async_worker_panicked
          THEN /\ room_screens' = [room_screens EXCEPT ![i].pc = "panicked"]
               /\ UNCHANGED REQUEST_SENDER
          ELSE /\ room_screens' = [room_screens EXCEPT ![i].pc = "done"]
               /\ REQUEST_SENDER' =
                    REQUEST_SENDER
                    \o <<Subscription("SubscribeToTypingNotices", r, FALSE),
                         Subscription("SubscribeToOwnUserReadReceiptsChanged", r, FALSE)>>
       /\ UNCHANGED <<stream_vars, all_known_rooms, todo, cur, emitted, sync_failed,
                      sync_panicked, session_vars, net, PENDING_ROOM_UPDATES, refresh,
                      ui_vars, current_active_room, TIMELINE_STATES, endpoints_taken,
                      timeline_updates, created, ui_worker_panicked, passes,
                      async_worker_panicked, typing_notice_subscriber, worker_tasks,
                      loop_vars, profile_vars>>

\* A task of async_worker() sends an update of K through the
\* timeline_update_sender of a room's JoinedRoomDetails and broadcasts
\* RefreshUI.
SendTimelineUpdate(K) ==
    /\ \E r \in Rooms, u \in K :
          LET t == ALL_JOINED_ROOMS[r] IN
          /\ t # NoTask
          /\ Queued(t) < MaxQueued
          /\ timeline_updates' =
               MapInsert(timeline_updates, t, Append(Receiver(timeline_updates, t), u))
    /\ refresh' = TRUE
    /\ UNCHANGED <<stream_vars, all_known_rooms, todo, cur, emitted, sync_failed,
                   sync_panicked, session_vars, net, PENDING_ROOM_UPDATES, ui_vars,
                   current_active_room, room_screens, TIMELINE_STATES, endpoints_taken,
                   created, ui_worker_panicked, passes,
                   worker_vars, loop_vars, profile_vars>>

\* enqueue_user_profile_update(): a RefreshUI broadcast of a sender other
\* than the two update queues modelled here.
EnqueueUserProfileUpdate ==
    /\ ~refresh
    /\ refresh' = TRUE
    /\ UNCHANGED <<stream_vars, all_known_rooms, todo, cur, emitted, sync_failed,
                   sync_panicked, session_vars, net, PENDING_ROOM_UPDATES, ui_vars,
                   screen_vars, passes,
                   worker_vars, loop_vars, profile_vars>>

Screens ==
    \/ HandleCurrentActiveRoom
    \/ ShowTimeline
    \/ TakeTimelineEndpoints
    \/ ProcessTimelineUpdates
    \/ HideTimeline

NextScreen ==
    \/ ReceiveDiff(ScreenRooms)
    \/ Reconciler
    \/ UiPass
    \/ Screens

\* With one room the frontend has no room to switch to, so that no oneshot
\* is fired and HideTimeline is never enabled.
NextDrain ==
    \/ ReceiveDiff(DrainRooms)
    \/ Reconciler
    \/ UiPass
    \/ EnqueueUserProfileUpdate
    \/ SendTimelineUpdate({[type |-> "EventDetailsFetched"]})
    \/ HandleCurrentActiveRoom
    \/ ShowTimeline
    \/ TakeTimelineEndpoints
    \/ ProcessTimelineUpdates

\* One joined room that is shown, and the senders of both update queues.
SpecDrain == InitWith(<<"r1", "r2">>) /\ [][NextDrain]_vars

\* Two joined rooms and a frontend that switches between them.
SpecScreen == InitWith(<<"r1", "r2">>) /\ [][NextScreen]_vars

\* ------------------------------------------- process_timeline_updates()
\* The state once sync() has mirrored one diff that appends the snapshots
\* S of Joined rooms, every room has its JoinedRoomDetails and ui_worker()
\* has handled the updates.  With tl other than NoState the frontend
\* displays the first room of S: its room screen task has run
\* show_timeline(), holds the state tl and waits in its loop, and q are
\* the updates sent to the room's channel since the last pass.
InitSynced(S, tl, q) ==
    LET n == Len(S)
        task(r) == IF \E i \in 1..n : S[i].room_id = r
                   THEN CHOOSE i \in 1..n : S[i].room_id = r
                   ELSE NoTask
        r1 == S[1].room_id
        shown == tl # NoState
    IN
    /\ ext = [i \in 1..n |-> S[i].room_id]
    /\ turns = 1
    /\ all_known_rooms = S
    /\ todo = <<>>
    /\ cur = NoCur
    /\ emitted = <<>>
    /\ sync_failed = FALSE
    /\ sync_panicked = FALSE
    /\ ALL_JOINED_ROOMS = [r \in Rooms |-> task(r)]
    /\ tasks = 1..n
    /\ next_task = n + 1
    /\ net = [r \in Rooms |-> IF task(r) # NoTask THEN 1 ELSE 0]
    /\ PENDING_ROOM_UPDATES = <<>>
    /\ refresh = FALSE
    /\ rooms_list =
         update_displayed_rooms(
             HandleAll(NewRoomsList, [i \in 1..n |-> AddJoinedRoom(JoinedRoomInfo(S[i]))]),
             <<"r1", "r2">>)
    /\ hash_order = <<"r1", "r2">>
    /\ current_active_room = IF shown THEN r1 ELSE None
    /\ room_screens =
         IF shown
         THEN <<[RoomScreen(r1) EXCEPT !.pc = "shown", !.tl_state = tl]>>
         ELSE <<>>
    /\ TIMELINE_STATES = [r \in Rooms |-> NoState]
    /\ endpoints_taken = IF shown THEN {task(r1)} ELSE {}
    /\ timeline_updates =
         IF q = <<>> THEN EmptyMap ELSE MapInsert(EmptyMap, task(r1), q)
    /\ created = IF shown THEN {TimelineUiState(r1, task(r1))} ELSE {}
    /\ ui_worker_panicked = FALSE
    /\ passes = IF shown
                THEN [who |-> "room_screen", receiver |-> task(r1), pushes |-> 0]
                ELSE [who |-> "rooms_list", receiver |-> NoTask, pushes |-> 1]
    /\ REQUEST_SENDER =
         IF shown
         THEN <<Request("GetRoomPowerLevels", r1)>> \o ShowRequests(r1, TRUE)
         ELSE <<>>
    /\ async_worker_panicked = FALSE
    /\ typing_notice_subscriber = {}
    /\ worker_tasks = <<>>
    /\ supervisor_stopped = FALSE
    /\ ui_worker_awaits = NoUpdate
    /\ USER_PROFILE_CACHE = EmptyMap
    /\ PENDING_USER_PROFILE_UPDATES = <<>>
    /\ fetch_calls = <<>>

\* Room r1 is shown; the state of its screen is not fully paginated and
\* holds any timeline of Items, and the channel holds any updates.
InitUpdates ==
    \E i \in Items, q \in UNION {[1..n -> TimelineUpdates] : n \in 0..MaxQueued} :
       InitSynced(<<Snapshot("r1", "Joined", FALSE, FALSE, None, "n1", None)>>,
                  [TimelineUiState("r1", 1) EXCEPT !.items = i], q)

\* One pass of process_timeline_updates() over each state and channel.
SpecUpdates == InitUpdates /\ [][ProcessTimelineUpdates]_vars

\* ------------------------------------------------------------ async_worker()
\* Most requests the frontend has in flight at once, in the channel of
\* async_worker() or in a task it spawned.
MaxRequests == 2

\* The requests a command of the frontend submits for room r1: pagination
\* in both directions, a message for the main timeline or for a thread,
\* and the read receipts of the own user.
WorkerRequests ==
    {PaginateRoomTimeline("r1", 50, d) : d \in {"Backwards", "Forwards"}}
    \cup {[type |-> "SendMessage", room_id |-> "r1", thread_root_id |-> th] :
             th \in BOOLEAN}
    \cup {Subscription("SubscribeToOwnUserReadReceiptsChanged", "r1", s) :
             s \in BOOLEAN}

\* submit_async_request() of a command of the frontend, which panics when
\* async_worker() has ended.
SubmitRequest(K) ==
    /\ ~async_worker_panicked
    /\ Len(REQUEST_SENDER) + Len(worker_tasks) < MaxRequests
    /\ \E req \in K : REQUEST_SENDER' = Append(REQUEST_SENDER, req)
    /\ UNCHANGED <<stream_vars, all_known_rooms, todo, cur, emitted, sync_failed,
                   sync_panicked, session_vars, net, PENDING_ROOM_UPDATES, refresh,
                   ui_vars, screen_vars, passes, async_worker_panicked,
                   typing_notice_subscriber, worker_tasks, loop_vars, profile_vars>>

\* The arm of SubscribeToTypingNotices with an unsubscribe that leaves the
\* guard where it is.
TypingNoticeSubscriber_Kept(subs, t, subscribe) ==
    IF subscribe THEN subs \cup {t} ELSE subs

\* typing_notice_subscriber of the JoinedRoomDetails t after the arm of
\* SubscribeToTypingNotices: Some(drop_guard), or taken.
TypingNoticeSubscriber(subs, t, subscribe) ==
    IF subscribe THEN subs \cup {t} ELSE subs \ {t}

\* The sequence s without its element i.
Without(s, i) == SubSeq(s, 1, i - 1) \o SubSeq(s, i + 1, Len(s))

\* One turn of the loop of async_worker(): the request at the head of the
\* channel is received and its arm runs up to the next recv().  An arm
\* looks up the JoinedRoomDetails of the room with try_get_room_details()
\* and goes on to the next request when there are none; with them it
\* spawns the task that does the work.  Unsubscribing from the read
\* receipts aborts the task kept for the room in tasks_list, before any
\* lookup; the arm of SubscribeToTypingNotices keeps or takes the guard
\* itself, and taking it closes the receiver of the task that forwards
\* the notices, which ends that task; the arm of SendMessage builds the
\* focused timeline of a thread root itself and unwraps the result; the arm
\* of GetUserProfile needs the client only and always spawns its task.
AsyncWorker ==
    /\ ~async_worker_panicked
    /\ REQUEST_SENDER # <<>>
    /\ LET req == Head(REQUEST_SENDER)
           t == ALL_JOINED_ROOMS[req.room_id]
           spawned == Append(worker_tasks,
                             [request |-> req, receiver |-> t, step |-> 0])
           kept == {i \in DOMAIN worker_tasks :
                       /\ worker_tasks[i].request.type = req.type
                       /\ worker_tasks[i].request.room_id = req.room_id}
       IN
       /\ REQUEST_SENDER' = Tail(REQUEST_SENDER)
       /\ CASE req.type = "SubscribeToOwnUserReadReceiptsChanged" /\ ~req.subscribe ->
                 /\ worker_tasks' =
                      IF kept = {}
                      THEN worker_tasks
                      ELSE Without(worker_tasks, CHOOSE i \in kept : \A j \in kept : j <= i)
                 /\ UNCHANGED <<async_worker_panicked, typing_notice_subscriber>>
            [] req.type = "GetUserProfile" ->
                 /\ worker_tasks' =
                      Append(worker_tasks,
                             [request |-> req, receiver |-> NoTask, step |-> 0])
                 /\ UNCHANGED <<async_worker_panicked, typing_notice_subscriber>>
            [] OTHER ->
                 IF t = NoTask
                 THEN UNCHANGED <<async_worker_panicked, typing_notice_subscriber,
                                  worker_tasks>>
                 ELSE CASE req.type = "SubscribeToTypingNotices" ->
                             /\ typing_notice_subscriber' =
                                  TypingNoticeSubscriber(typing_notice_subscriber, t,
                                                         req.subscribe)
                             /\ worker_tasks' =
                                  IF req.subscribe
                                  THEN IF t \in typing_notice_subscriber
                                       THEN worker_tasks
                                       ELSE spawned
                                  ELSE IF kept = {}
                                       THEN worker_tasks
                                       ELSE Without(worker_tasks, CHOOSE i \in kept : TRUE)
                             /\ UNCHANGED async_worker_panicked
                        [] req.type = "SendMessage" ->
                             \E built \in BOOLEAN :
                                IF req.thread_root_id /\ ~built
                                THEN /\ async_worker_panicked' = TRUE
                                     /\ UNCHANGED <<typing_notice_subscriber, worker_tasks>>
                                ELSE /\ worker_tasks' = spawned
                                     /\ UNCHANGED <<async_worker_panicked,
                                                    typing_notice_subscriber>>
                        [] OTHER ->
                             /\ worker_tasks' = spawned
                             /\ UNCHANGED <<async_worker_panicked, typing_notice_subscriber>>
    /\ UNCHANGED <<stream_vars, all_known_rooms, todo, cur, emitted, sync_failed,
                   sync_panicked, session_vars, net, PENDING_ROOM_UPDATES, refresh,
                   ui_vars, screen_vars, passes, loop_vars, profile_vars>>

\* The receiving end of the channel of the JoinedRoomDetails t exists: in
\* the details of a room, or in the TimelineUiState that took it.
ReceiverAlive(t) ==
    \/ t \in endpoints_taken
    \/ \E r \in Rooms : ALL_JOINED_ROOMS[r] = t

\* One step of a task spawned by async_worker(), from one send to the
\* next.  A pagination sends PaginationRunning and, once the SDK has
\* answered, PaginationIdle or PaginationError, each with a RefreshUI
\* broadcast; the power levels are sent when they could be fetched; the
\* task of a message sends no update and broadcasts; the task of the
\* member list sends RoomMembersSynced and submits GetRoomMembers, whose
\* task sends the list it got, if any, and broadcasts; the task of the read
\* receipts sends each receipt without a broadcast and runs until it is
\* aborted.  A send to a channel without receiver ends the task.
WorkerTask ==
    \E i \in DOMAIN worker_tasks :
       LET x == worker_tasks[i]
           req == x.request
           t == x.receiver
           Sends(u) ==
               /\ Queued(t) < MaxQueued
               /\ timeline_updates' =
                    MapInsert(timeline_updates, t, Append(Receiver(timeline_updates, t), u))
           Ends == worker_tasks' = Without(worker_tasks, i)
       IN
       /\ req.type \notin {"SubscribeToTypingNotices", "GetUserProfile"}
       /\ IF ~ReceiverAlive(t) /\ req.type # "SendMessage"
          THEN /\ Ends
               /\ UNCHANGED <<timeline_updates, refresh, REQUEST_SENDER>>
          ELSE CASE req.type = "PaginateRoomTimeline" ->
                      /\ refresh' = TRUE
                      /\ UNCHANGED REQUEST_SENDER
                      /\ IF x.step = 0
                         THEN /\ Sends([type |-> "PaginationRunning",
                                        direction |-> req.direction])
                              /\ worker_tasks' = [worker_tasks EXCEPT ![i].step = 1]
                         ELSE /\ Ends
                              /\ \/ \E f \in BOOLEAN :
                                       Sends([type |-> "PaginationIdle",
                                              fully_paginated |-> f,
                                              direction |-> req.direction])
                                 \/ Sends([type |-> "PaginationError",
                                           direction |-> req.direction])
                 [] req.type = "GetRoomPowerLevels" ->
                      /\ Ends
                      /\ UNCHANGED REQUEST_SENDER
                      /\ \/ Sends([type |-> "UserPowerLevels"]) /\ refresh' = TRUE
                         \/ UNCHANGED <<timeline_updates, refresh>>
                 [] req.type = "SendMessage" ->
                      /\ Ends
                      /\ refresh' = TRUE
                      /\ UNCHANGED <<timeline_updates, REQUEST_SENDER>>
                 [] req.type = "SyncRoomMemberList" ->
                      /\ Ends
                      /\ Sends([type |-> "RoomMembersSynced"])
                      /\ IF async_worker_panicked
                         THEN UNCHANGED <<REQUEST_SENDER, refresh>>
                         ELSE /\ REQUEST_SENDER' =
                                   Append(REQUEST_SENDER,
                                          Request("GetRoomMembers", req.room_id))
                              /\ refresh' = TRUE
                 [] req.type = "GetRoomMembers" ->
                      /\ Ends
                      /\ refresh' = TRUE
                      /\ UNCHANGED REQUEST_SENDER
                      /\ \/ Sends([type |-> "RoomMembersListFetched"])
                         \/ UNCHANGED timeline_updates
                 [] req.type = "SubscribeToOwnUserReadReceiptsChanged" ->
                      /\ Sends([type |-> "OwnUserReadReceipt"])
                      /\ UNCHANGED <<worker_tasks, refresh, REQUEST_SENDER>>
       /\ UNCHANGED <<stream_vars, all_known_rooms, todo, cur, emitted, sync_failed,
                      sync_panicked, session_vars, net, PENDING_ROOM_UPDATES,
                      ui_vars, current_active_room, room_screens, TIMELINE_STATES,
                      endpoints_taken, created, ui_worker_panicked, passes,
                      async_worker_panicked, typing_notice_subscriber, loop_vars, profile_vars>>

\* The task that forwards the typing notices of a room receives the users
\* who type, sends TypingUsers (a failed send is only logged) and
\* broadcasts RefreshUI.
TypingNotice ==
    \E i \in DOMAIN worker_tasks :
       LET t == worker_tasks[i].receiver IN
       /\ worker_tasks[i].request.type = "SubscribeToTypingNotices"
       /\ refresh' = TRUE
       /\ IF ReceiverAlive(t)
          THEN /\ Queued(t) < MaxQueued
               /\ timeline_updates' =
                    MapInsert(timeline_updates, t,
                              Append(Receiver(timeline_updates, t),
                                     [type |-> "TypingUsers"]))
          ELSE UNCHANGED timeline_updates
       /\ UNCHANGED <<stream_vars, all_known_rooms, todo, cur, emitted, sync_failed,
                      sync_panicked, session_vars, net, PENDING_ROOM_UPDATES,
                      ui_vars, current_active_room, room_screens, TIMELINE_STATES,
                      endpoints_taken, created, ui_worker_panicked, passes,
                      worker_vars, loop_vars, profile_vars>>

\* The task of GetUserProfile: with a room in which the user is a member
\* it gets a Full update, else it asks the homeserver for the profile and
\* gets a UserProfileOnly update; the update is enqueued with
\* enqueue_user_profile_update(), which broadcasts RefreshUI.  When neither
\* answers, the task logs the failure and enqueues nothing.
ProfileTask ==
    \E i \in DOMAIN worker_tasks :
       LET req == worker_tasks[i].request
           new_profile == [user_id |-> req.user_id, username |-> "n1"]
           Enqueues(update) ==
               /\ PENDING_USER_PROFILE_UPDATES' =
                    Append(PENDING_USER_PROFILE_UPDATES, update)
               /\ refresh' = TRUE
       IN
       /\ req.type = "GetUserProfile"
       /\ worker_tasks' = Without(worker_tasks, i)
       /\ \/ /\ req.room_id # None
             /\ Enqueues([type |-> "Full", new_profile |-> new_profile,
                          room_id |-> req.room_id])
          \/ Enqueues([type |-> "UserProfileOnly", new_profile |-> new_profile])
          \/ UNCHANGED <<PENDING_USER_PROFILE_UPDATES, refresh>>
       /\ UNCHANGED <<stream_vars, all_known_rooms, todo, cur, emitted, sync_failed,
                      sync_panicked, session_vars, net, PENDING_ROOM_UPDATES,
                      ui_vars, screen_vars, passes, REQUEST_SENDER,
                      async_worker_panicked, typing_notice_subscriber, loop_vars,
                      USER_PROFILE_CACHE, fetch_calls>>

\* Most calls of fetch_user_profile() followed.
MaxCalls == 3

\* The command fetch_user_profile of the frontend, for a user and a room or
\* none.  The call holds the write lock of the cache from its lookup to its
\* insert and awaits nothing in between, so it is one step.  A call that
\* has to submit when async_worker() has ended panics in
\* submit_async_request() before it inserts, and returns nothing.
FetchUserProfile ==
    /\ Len(fetch_calls) < MaxCalls
    /\ \E user_id \in Users, room_id \in {None, "r1"} :
          LET call == fetch_user_profile(USER_PROFILE_CACHE, user_id) IN
          /\ call.submits => ~async_worker_panicked
          /\ USER_PROFILE_CACHE' = call.cache
          /\ REQUEST_SENDER' =
               IF call.submits
               THEN Append(REQUEST_SENDER,
                           [type |-> "GetUserProfile", user_id |-> user_id,
                            room_id |-> room_id, local_only |-> FALSE])
               ELSE REQUEST_SENDER
          /\ fetch_calls' =
               Append(fetch_calls, [user_id |-> user_id, returned |-> call.returned])
    /\ UNCHANGED <<stream_vars, all_known_rooms, todo, cur, emitted, sync_failed,
                   sync_panicked, session_vars, net, PENDING_ROOM_UPDATES, refresh,
                   ui_vars, screen_vars, passes, async_worker_panicked,
                   typing_notice_subscriber, worker_tasks, loop_vars,
                   PENDING_USER_PROFILE_UPDATES>>

\* A frontend that asks for the profiles of two users while the worker
\* fetches them and the UI worker fills the cache.
SpecProfile ==
    InitWith(<<"r1", "r2">>)
    /\ [][FetchUserProfile \/ AsyncWorker \/ ProfileTask \/ UiPass]_vars

NextWorker ==
    \/ ReceiveDiff(DrainRooms)
    \/ Reconciler
    \/ SubmitRequest(WorkerRequests)
    \/ AsyncWorker
    \/ WorkerTask

\* One room that is joined while the frontend submits requests for it.
SpecWorker == InitWith(<<"r1", "r2">>) /\ [][NextWorker]_vars

NextTyping ==
    \/ Screens
    \/ AsyncWorker
    \/ TypingNotice

\* Two joined rooms of which the first is shown, a frontend that switches
\* between them, and users who type in them; the tasks async_worker()
\* spawns for the other requests of a room screen have not got to their
\* first send.
SpecTyping == InitSynced(<<Snapshot("r1", "Joined", FALSE, FALSE, None, "n1", None),
                           Snapshot("r2", "Joined", FALSE, FALSE, None, "n1", None)>>,
                         TimelineUiState("r1", 1), <<>>)
              /\ [][NextTyping]_vars

\* The same two rooms and frontend, with the tasks of the room screens
\* followed statement by statement through hide_timeline().
SpecHide ==
    /\ InitSynced(<<Snapshot("r1", "Joined", FALSE, FALSE, None, "n1", None),
                    Snapshot("r2", "Joined", FALSE, FALSE, None, "n1", None)>>,
                  TimelineUiState("r1", 1), <<>>)
    /\ [][\/ HandleCurrentActiveRoom
          \/ ShowTimeline
          \/ TakeTimelineEndpoints
          \/ SaveState
          \/ HideTimelineUnsubscribes
          \/ AsyncWorker]_vars

\* ============================================================ properties
\* The loop of sync() is between two turns and has not failed.
BetweenTurns == todo = <<>> /\ ~sync_failed /\ ~sync_panicked

\* The rooms of the mirror v whose snapshot is in state st.
RoomsIn(v, st) == {v[i].room_id : i \in {j \in 1..Len(v) : v[j].state = st}}

\* The number of entries of the mirror v for the room r.
Entries(v, r) == Cardinality({i \in 1..Len(v) : v[i].room_id = r})

\* C1: each time the reconciler has finished a batch, the room ids of the
\* mirror are the vector obtained by applying the diffs delivered so far as
\* plain vector operations to an empty vector, pairs handled as one update
\* included.
C1_MirrorFollowsDiffs == BetweenTurns => RoomIds(all_known_rooms) = ext

C1_Witness == BetweenTurns /\ turns = 2 /\ Len(all_known_rooms) = 2 /\ ext = <<"r2", "r1">>

\* C2: for every room id, the Add*Room updates emitted minus the RemoveRoom
\* updates emitted is 0 or 1 at every moment.
C2_ExactlyOnceLifecycle == \A r \in Rooms : net[r] \in {0, 1}

\* The diff being handled is a removal handled together with the diff that
\* gives the same room back, the room being Joined before and after.
JoinedPair ==
    /\ cur.next # NoDiff
    /\ Removed(cur.diff, cur.before).state = "Joined"
    /\ cur.next.values[1].state = "Joined"

\* C3: while and after a Remove/PopFront/PopBack of a Joined room is handled
\* together with the Insert/PushFront/PushBack of a Joined snapshot of the
\* same room, the room keeps its JoinedRoomDetails (same task, still
\* running, none spawned), both diffs have left the stream, and neither
\* RemoveRoom nor AddJoinedRoom is emitted for the room.
C3_PairKeepsSession ==
    JoinedPair =>
        LET r == Removed(cur.diff, cur.before).room_id IN
        /\ ALL_JOINED_ROOMS[r] # NoTask
        /\ ALL_JOINED_ROOMS[r] = cur.sessions[r]
        /\ ALL_JOINED_ROOMS[r] \in tasks
        /\ tasks = cur.tasks
        /\ ext = ApplyDiff(ApplyDiff(RoomIds(cur.before), IdDiff(cur.diff)),
                           IdDiff(cur.next))
        /\ \A i \in 1..Len(emitted) :
              emitted[i].room_id = r => emitted[i].type \notin {"RemoveRoom", "AddJoinedRoom"}

\* The pair has been handled up to the last mutation of the mirror.
C3_Witness == JoinedPair /\ Len(todo) = 1 /\ cur.diff.kind = "Remove" /\ cur.next.kind = "Insert"

\* Every diff delivered has been applied and every update has been drained.
Quiescent == BetweenTurns /\ PENDING_ROOM_UPDATES = <<>>

\* C5: once all diffs are applied and all updates drained, every room of the
\* joined set has exactly one mirror entry, in state Joined, and every room
\* of the invited set has exactly one mirror entry, in state Invited.
C5_StoreMatchesMirror ==
    Quiescent =>
        /\ \A r \in DOMAIN rooms_list.all_joined_rooms :
              Entries(all_known_rooms, r) = 1 /\ r \in RoomsIn(all_known_rooms, "Joined")
        /\ \A r \in DOMAIN rooms_list.invited_rooms :
              Entries(all_known_rooms, r) = 1 /\ r \in RoomsIn(all_known_rooms, "Invited")

\* C6: between two diffs (no timeline build having failed) every room whose
\* mirror entry is Joined has JoinedRoomDetails in ALL_JOINED_ROOMS, with a
\* running task of its own.
C6_JoinedHasSession ==
    BetweenTurns =>
        \A r \in RoomsIn(all_known_rooms, "Joined") :
            /\ ALL_JOINED_ROOMS[r] # NoTask
            /\ ALL_JOINED_ROOMS[r] \in tasks
            /\ \A q \in Rooms \ {r} : ALL_JOINED_ROOMS[q] # ALL_JOINED_ROOMS[r]

C6_Witness ==
    BetweenTurns /\ turns = 2 /\ RoomsIn(all_known_rooms, "Joined") = {"r1", "r2"}

\* C7: a room that has left the collection, or whose snapshot has left the
\* state Joined, has no JoinedRoomDetails any more, and no task runs that
\* does not belong to stored JoinedRoomDetails.
C7_SessionOnlyWhileJoined ==
    BetweenTurns =>
        /\ \A r \in Rooms :
              ALL_JOINED_ROOMS[r] # NoTask => r \in RoomsIn(all_known_rooms, "Joined")
        /\ \A t \in tasks : \E r \in Rooms : ALL_JOINED_ROOMS[r] = t

\* C9: when AddJoinedRoom(r) enters the update queue, ALL_JOINED_ROOMS
\* already holds the details of r.
C9_DetailsBeforeAdd ==
    [][(/\ Len(PENDING_ROOM_UPDATES') = Len(PENDING_ROOM_UPDATES) + 1
        /\ PENDING_ROOM_UPDATES'[Len(PENDING_ROOM_UPDATES')].type = "AddJoinedRoom")
       => LET r == PENDING_ROOM_UPDATES'[Len(PENDING_ROOM_UPDATES')].room_id IN
          ALL_JOINED_ROOMS[r] # NoTask /\ ALL_JOINED_ROOMS'[r] # NoTask]_vars

C9_Witness ==
    /\ PENDING_ROOM_UPDATES # <<>>
    /\ PENDING_ROOM_UPDATES[Len(PENDING_ROOM_UPDATES)].type = "AddJoinedRoom"
    /\ ALL_JOINED_ROOMS[PENDING_ROOM_UPDATES[Len(PENDING_ROOM_UPDATES)].room_id] # NoTask

\* The updates enqueued for the diff being handled once the step at the head
\* of todo is done.
EmittedAfter == IF Head(todo).op = "enqueue" THEN Append(emitted, Head(todo).val) ELSE emitted

\* The step taken is the last one of a diff of a kind in K.
Completes(K) == cur.diff.kind \in K /\ todo # <<>> /\ todo' = <<>> /\ ~sync_failed'

\* The rooms of the mirror v beyond its first n entries, last one first.
Leaving(v, n) == [i \in 1..(IF Len(v) > n THEN Len(v) - n ELSE 0) |-> v[Len(v) + 1 - i]]

\* The length the diff being handled cuts the mirror to.
KeptLength == IF cur.diff.kind = "Truncate" THEN cur.diff.index ELSE 0

\* The updates of em whose type is in T.
OfType(em, T) == SelectSeq(em, LAMBDA u : u.type \in T)

\* Each room leaving the mirror got its own RemoveRoom, last room first, and
\* the JoinedRoomDetails it had are gone, their task aborted.
RemovedIndividually(em) ==
    LET gone == Leaving(cur.before, KeptLength) IN
    /\ OfType(em, {"RemoveRoom"}) =
          [i \in 1..Len(gone) |-> RemoveRoom(gone[i].room_id, gone[i].state)]
    /\ \A i \in 1..Len(gone) :
          LET t == cur.sessions[gone[i].room_id] IN
          t # NoTask => t \notin tasks' /\ ALL_JOINED_ROOMS'[gone[i].room_id] # t

\* Reset has, after the removals, emitted ClearRooms and then added and
\* pushed every new value in order.
ResetAdded(em) ==
    LET vs == cur.diff.values
        added == SelectSeq(vs, LAMBDA x : x.state \in {"Invited", "Joined"})
        adds == OfType(em, {"AddInvitedRoom", "AddJoinedRoom"})
    IN  /\ em = OfType(em, {"RemoveRoom"}) \o <<ClearRooms>> \o adds
        /\ RoomIds(adds) = RoomIds(added)
        /\ \A i \in 1..Len(adds) :
              adds[i].type = (IF added[i].state = "Joined" THEN "AddJoinedRoom"
                              ELSE "AddInvitedRoom")
        /\ all_known_rooms' = vs

\* Clear has dropped every JoinedRoomDetails at once and emitted one
\* ClearRooms and nothing else.
ClearedInBulk(em) ==
    /\ em = <<ClearRooms>>
    /\ \A r \in Rooms : ALL_JOINED_ROOMS'[r] = NoTask
    /\ tasks' \cap cur.tasks = {}

Updates(ops) ==
    LET e == SelectSeq(ops, LAMBDA o : o.op = "enqueue") IN [i \in 1..Len(e) |-> e[i].val]

\* The RoomsList after Remove(i) and Insert(i, new) came in one batch and
\* their updates were drained.
AsOneBatch(i, new) ==
    handle_rooms_list_updates(rooms_list,
        Updates(SyncOps(Diff("Remove", i, <<>>), all_known_rooms, Diff("Insert", i, <<new>>))),
        hash_order)

\* The RoomsList after Remove(i) and Insert(i, new) came in two batches, the
\* updates of each being drained.
AsTwoBatches(i, new) ==
    LET removed == handle_rooms_list_updates(rooms_list,
                       Updates(SyncOps(Diff("Remove", i, <<>>), all_known_rooms, NoDiff)),
                       hash_order)
    IN  handle_rooms_list_updates(removed,
            Updates(SyncOps(Diff("Insert", i, <<new>>), RemoveAt(all_known_rooms, i), NoDiff)),
            hash_order)

\* C4: from any drained state, [Remove(i), Insert(i, new)] for a newer
\* snapshot of the room at i leaves the same RoomsList whether the two diffs
\* come in one batch or in two, for every choice of the fields of `new'.
C4_PairEquivalentToRemoveAdd ==
    Quiescent =>
        \A i \in 0..(Len(all_known_rooms) - 1) :
            \A new \in {x \in DetailRooms : x.room_id = all_known_rooms[i + 1].room_id} :
                AsOneBatch(i, new) = AsTwoBatches(i, new)

\* The diff being handled is a Set, or a removal handled together with the
\* diff that gives the room back: update_room() is called.
IsUpdate == cur.diff.kind = "Set" \/ cur.next # NoDiff

UpdateOld ==
    IF cur.diff.kind = "Set" THEN cur.before[cur.diff.index + 1]
    ELSE Removed(cur.diff, cur.before)

UpdateNew == IF cur.diff.kind = "Set" THEN cur.diff.values[1] ELSE cur.next.values[1]

\* A room that was Invited has been updated to a Joined snapshot and every
\* update this gave rise to has been drained; the mutation of the mirror is
\* all that is left of the diff.
InviteAccepted ==
    /\ IsUpdate
    /\ UpdateOld.state = "Invited"
    /\ UpdateNew.state = "Joined"
    /\ UpdateOld.room_id = UpdateNew.room_id
    /\ Len(todo) = 1
    /\ \E i \in 1..Len(emitted) : emitted[i].type = "AddJoinedRoom"
    /\ PENDING_ROOM_UPDATES = <<>>

\* C10: a room added as Invited whose later Joined snapshot is processed by
\* an update is, once the updates are drained, out of the invited set and of
\* displayed_invited_rooms, in the joined set, displayed in the direct or the
\* regular list as its is_direct flag says when it passes the filter (in
\* neither when it does not), and has JoinedRoomDetails.
C10_InviteBecomesJoined ==
    InviteAccepted =>
        LET r == UpdateNew.room_id
            shown == Displayed(rooms_list.filter_keywords, JoinedRoomInfo(UpdateNew))
            direct == r \in Range(rooms_list.displayed_direct_rooms)
            regular == r \in Range(rooms_list.displayed_regular_rooms)
        IN  /\ r \notin DOMAIN rooms_list.invited_rooms
            /\ r \notin Range(rooms_list.displayed_invited_rooms)
            /\ r \in DOMAIN rooms_list.all_joined_rooms
            /\ direct <=> (shown /\ UpdateNew.is_direct)
            /\ regular <=> (shown /\ ~UpdateNew.is_direct)
            /\ ALL_JOINED_ROOMS[r] # NoTask
            /\ ALL_JOINED_ROOMS[r] \in tasks

\* The invitation to a direct room that passes the filter "n1" was accepted.
C10_Witness ==
    /\ InviteAccepted
    /\ UpdateNew.is_direct
    /\ rooms_list.filter_keywords = "n1"
    /\ rooms_list.displayed_direct_rooms = <<"r1">>

\* The diff being handled is a Set or a Remove whose index is out of bounds
\* for the mirror.
OutOfBounds ==
    /\ cur.diff.kind \in {"Set", "Remove"}
    /\ cur.diff.index >= Len(cur.before)

\* C11: a Set or Remove whose index is out of bounds is abandoned: while and
\* after it is handled the mirror and the session map are as before, no
\* add, update or remove step is taken for it, the following diff is left
\* in the batch, and sync() goes on.
C11_OutOfBoundsAbandoned ==
    [][(OutOfBounds /\ todo # <<>>) =>
          /\ all_known_rooms' = cur.before
          /\ ALL_JOINED_ROOMS' = cur.sessions
          /\ tasks' = cur.tasks
          /\ Head(todo).op \in {"log_bug", "set"}
          /\ cur.next = NoDiff
          /\ ~sync_panicked' /\ ~sync_failed']_vars

\* C12: when building the timeline of a Joined room fails, the step inserts
\* no details, adds no mirror entry, enqueues nothing and spawns no task;
\* sync() leaves its loop with the error, and from then on takes no diff
\* and changes neither the mirror nor the session map nor the queue.
C12_BuildFailureStopsSync ==
    [][/\ (~sync_failed /\ sync_failed') =>
            /\ Head(todo).op = "build_timeline"
            /\ todo' = <<>>
            /\ UNCHANGED <<all_known_rooms, ALL_JOINED_ROOMS, tasks, PENDING_ROOM_UPDATES,
                           ext, turns>>
       /\ sync_failed =>
            /\ sync_failed' /\ todo' = <<>>
            /\ UNCHANGED <<all_known_rooms, ALL_JOINED_ROOMS, tasks, ext, turns>>
            /\ PENDING_ROOM_UPDATES' \in {PENDING_ROOM_UPDATES, <<>>}]_vars

\* The build of the second room of an Append failed; the updates are drained.
C12_Witness ==
    /\ sync_failed
    /\ Len(all_known_rooms) = 1
    /\ Len(ext) = 2
    /\ PENDING_ROOM_UPDATES = <<>>
    /\ DOMAIN rooms_list.all_joined_rooms # {}

\* update_room() has compared the fields of two snapshots of the same room
\* in the same state; the mutation of the mirror is all that is left.
FieldsCompared ==
    /\ IsUpdate
    /\ UpdateOld.room_id = UpdateNew.room_id
    /\ UpdateOld.state = UpdateNew.state
    /\ Len(todo) = 1

\* The number of updates of type ty emitted for the diff being handled.
Emitted(ty) == Len(OfType(emitted, {ty}))

\* C13: when the old and the new snapshot have the same room id and state
\* (whatever the state), exactly one UpdateRoomAvatar, UpdateRoomName or
\* UpdateTopic is emitted for each of avatar, display name and topic whose
\* value differs, and none for a field whose value is equal.
C13_OneEventPerChangedField ==
    FieldsCompared =>
        /\ Emitted("UpdateRoomAvatar") =
              (IF UpdateOld.room_avatar # UpdateNew.room_avatar THEN 1 ELSE 0)
        /\ Emitted("UpdateRoomName") =
              (IF UpdateOld.display_name # UpdateNew.display_name THEN 1 ELSE 0)
        /\ Emitted("UpdateTopic") = (IF UpdateOld.topic # UpdateNew.topic THEN 1 ELSE 0)

\* C14: an update of a Joined room, state unchanged, emits exactly one
\* TombstonedRoom when is_tombstoned goes from false to true, after which
\* (once drained) the stored JoinedRoomInfo is tombstoned; it emits none for
\* every other pair of flags.
C14_TombstoneOnce ==
    (FieldsCompared /\ UpdateNew.state = "Joined") =>
        IF ~UpdateOld.is_tombstoned /\ UpdateNew.is_tombstoned
        THEN /\ Emitted("TombstonedRoom") = 1
             /\ \A i \in 1..Len(emitted) :
                   emitted[i].type = "TombstonedRoom" => emitted[i].room_id = UpdateNew.room_id
             /\ PENDING_ROOM_UPDATES = <<>> =>
                   /\ UpdateNew.room_id \in DOMAIN rooms_list.all_joined_rooms
                   /\ rooms_list.all_joined_rooms[UpdateNew.room_id].is_tombstoned
        ELSE Emitted("TombstonedRoom") = 0

\* A Joined room has just been tombstoned and the store knows it.
C14_Witness ==
    /\ FieldsCompared
    /\ UpdateNew.state = "Joined"
    /\ ~UpdateOld.is_tombstoned
    /\ UpdateNew.is_tombstoned
    /\ PENDING_ROOM_UPDATES = <<>>
    /\ rooms_list.all_joined_rooms["r1"].is_tombstoned

\* ------------------------------------------------------------------ C15
\* The sequence s holds every element of S once and nothing else.
ExactlyOnce(s, S) == Range(s) = S /\ Len(s) = Cardinality(S)

\* The keywords of the last ApplyFilter of the queue q, else those in force.
LastKeywords(q, kw) ==
    LET at == {i \in 1..Len(q) : q[i].type = "ApplyFilter"}
    IN  IF at = {} THEN kw
        ELSE q[CHOOSE i \in at : \A j \in at : j <= i].keywords

\* The three displayed lists of rl are the rooms the filter of kw lets through.
DisplayedExactly(rl, kw) ==
    /\ ExactlyOnce(rl.displayed_invited_rooms,
                   {r \in DOMAIN rl.invited_rooms : Displayed(kw, rl.invited_rooms[r])})
    /\ ExactlyOnce(rl.displayed_direct_rooms,
                   {r \in DOMAIN rl.all_joined_rooms :
                        /\ Displayed(kw, rl.all_joined_rooms[r])
                        /\ rl.all_joined_rooms[r].is_direct})
    /\ ExactlyOnce(rl.displayed_regular_rooms,
                   {r \in DOMAIN rl.all_joined_rooms :
                        /\ Displayed(kw, rl.all_joined_rooms[r])
                        /\ ~rl.all_joined_rooms[r].is_direct})

\* A pass of handle_rooms_list_updates() that dequeues at least one update.
PassDequeued == refresh /\ ~refresh' /\ PENDING_ROOM_UPDATES # <<>>

\* C15: after every pass of handle_rooms_list_updates() that dequeued an
\* update, each displayed list holds exactly once every room of its kind
\* that the display filter lets through, and that filter is the one built
\* from the keywords of the last ApplyFilter dequeued.
C15_DisplayedListsFiltered ==
    [][PassDequeued =>
         LET kw == LastKeywords(PENDING_ROOM_UPDATES, rooms_list.filter_keywords)
         IN  /\ rooms_list'.display_filter = kw
             /\ DisplayedExactly(rooms_list', kw)]_vars

\* A pass has left a filter that hides the joined room of the store.
C15_Witness ==
    /\ ~refresh
    /\ PENDING_ROOM_UPDATES = <<>>
    /\ rooms_list.display_filter = "n2"
    /\ DOMAIN rooms_list.all_joined_rooms # {}
    /\ rooms_list.displayed_direct_rooms = <<>>
    /\ rooms_list.displayed_regular_rooms = <<>>

\* ------------------------------------------------------------------ C16
\* A pass of handle_rooms_list_updates(): only it takes the RefreshUI
\* broadcast from the UI worker.
RoomsListPass == refresh /\ ~refresh'

\* A pass of process_timeline_updates(): the step records itself as the last
\* pass or takes updates out of the channel the record names.
TimelinePass ==
    /\ passes'.who = "room_screen"
    /\ \/ passes' # passes
       \/ Count(timeline_updates', passes'.receiver) < Queued(passes'.receiver)

Alive(i) == room_screens[i].pc \in {"spawned", "first_time", "shown"}

\* The room screen tasks of room r that run.
Consumers(r) ==
    {i \in 1..Len(room_screens) : room_screens[i].room_id = r /\ Alive(i)}

\* C17: at any time at most one room screen task runs for a room id.
C17_OneConsumerPerRoom == \A r \in Rooms : Cardinality(Consumers(r)) <= 1

\* ------------------------------------------------------------------ C18
\* The room screen i takes the first step of show_timeline().
Shows(i) == room_screens[i].pc = "spawned" /\ room_screens'[i].pc # "spawned"

\* C18: the task of the new active room shows its timeline only after the
\* tasks of the rooms active before it have seen their cancellation and
\* hidden their timelines.
C18_ShowAfterPreviousHidden ==
    [][\A i \in 1..Len(room_screens) :
          Shows(i) =>
             \A j \in 1..(i - 1) : room_screens[j].pc \in {"done", "panicked"}]_vars

\* ------------------------------------------------------------------ C19
\* The number of places that hold a TimelineUiState of room r.
Holders(r) ==
    (IF TIMELINE_STATES[r] # NoState THEN 1 ELSE 0)
    + Cardinality({i \in 1..Len(room_screens) :
                      /\ room_screens[i].room_id = r
                      /\ room_screens[i].tl_state # NoState})

\* C19: once a TimelineUiState has been constructed for a room, the room's
\* state is in exactly one place: TIMELINE_STATES or the tl_state of one
\* RoomScreen.
C19_StateInOnePlace ==
    \A r \in Rooms : (\E st \in created : st.room_id = r) => Holders(r) = 1

\* ------------------------------------------------------------------ C20
\* The room screen i, having found no state to reclaim, leaves
\* take_timeline_endpoints().
Constructs(i) ==
    room_screens[i].pc = "first_time" /\ room_screens'[i].pc # "first_time"

\* C20: a show of a room that has JoinedRoomDetails and no saved state to
\* reclaim constructs a fresh state from the endpoints of the room.
C20_ReclaimOrConstruct ==
    [][\A i \in 1..Len(room_screens) :
          (Constructs(i) /\ ALL_JOINED_ROOMS[room_screens[i].room_id] # NoTask)
             => room_screens'[i].pc = "shown"]_vars

StatusAffecting == {"Status", "AddInvitedRoom", "AddJoinedRoom", "RemoveRoom", "ClearRooms"}

\* The place in the queue q of the last update that assigns the status, 0
\* without one.
LastStatusAffecting(q) ==
    LET at == {i \in 1..Len(q) : q[i].type \in StatusAffecting}
    IN  IF at = {} THEN 0 ELSE CHOOSE i \in at : \A j \in at : j <= i

\* C30: when the last status-affecting update that a pass of
\* handle_rooms_list_updates() dequeues is a Status update, the RoomsList
\* pushed to the frontend at the end of the pass carries the status of that
\* update; so it does for the Error status of the supervising loop.
C30_LastStatusPushed ==
    [][PassDequeued =>
         LET last == LastStatusAffecting(PENDING_ROOM_UPDATES)
         IN  (last > 0 /\ PENDING_ROOM_UPDATES[last].type = "Status")
                => rooms_list'.status = PENDING_ROOM_UPDATES[last].status]_vars

\* ------------------------------------------------------------------ C27
\* C27: no task is suspended at an await while it holds the lock of the
\* RoomsList.  ui_worker() takes the lock before the pass and keeps it to
\* the end of the select! arm, so that it holds it whenever the pass is
\* suspended with an update in hand.
C27_NoLockAcrossAwait == ui_worker_awaits = NoUpdate

\* The state of a pass of process_timeline_updates() over the updates q,
\* begun with the TimelineUiState tl, once k updates are dequeued.
AfterUpdates(tl, q, k) == process_timeline_updates(tl, SubSeq(q, 1, k))

\* The update that marks a timeline as fully paginated.
MarksFullyPaginated(u) ==
    /\ u.type = "PaginationIdle"
    /\ u.direction = "Backwards"
    /\ u.fully_paginated

\* C23: fully_paginated of a TimelineUiState goes from false to true only
\* when a PaginationIdle update with direction Backwards and
\* fully_paginated = true is processed: so it is for every update a pass
\* dequeues, and a pass that leaves the flag set where it was not has
\* dequeued such an update.
C23_FullyPaginatedByIdleBackwards ==
    [][\A i \in 1..Len(room_screens) :
          LET tl == room_screens[i].tl_state
              q == Receiver(timeline_updates, tl.update_receiver)
          IN
          room_screens[i].pc = "shown" =>
             /\ \A k \in 1..Len(q) :
                   (/\ ~AfterUpdates(tl, q, k - 1).tl.fully_paginated
                    /\ AfterUpdates(tl, q, k).tl.fully_paginated)
                   => MarksFullyPaginated(q[k])
             /\ (/\ ~tl.fully_paginated
                 /\ room_screens'[i].tl_state.fully_paginated)
                => \E k \in 1..Len(q) : MarksFullyPaginated(q[k])]_vars

\* C23 witness: a pass has marked the timeline of the shown room as fully
\* paginated (no screen starts so).
C23_Witness ==
    /\ Len(room_screens) = 1
    /\ room_screens[1].pc = "shown"
    /\ room_screens[1].tl_state.fully_paginated
    /\ timeline_updates = EmptyMap

\* A pass over the updates q, begun with the state tl, applies a NewItems
\* update without items to a timeline that has some.
Cleared(tl, q) ==
    \E k \in 1..Len(q) :
       /\ q[k].type = "NewItems"
       /\ q[k].new_items = <<>>
       /\ AfterUpdates(tl, q, k - 1).tl.items # <<>>

\* C29: a pass of a shown room that applies a NewItems update without
\* items to a timeline that has some submits one PaginateRoomTimeline
\* request (Backwards, 50 events) for the room, whatever else it dequeues.
C29_ClearedTimelinePaginates ==
    [][\A i \in 1..Len(room_screens) :
          LET tl == room_screens[i].tl_state
              q == Receiver(timeline_updates, tl.update_receiver)
          IN
          (/\ room_screens[i].pc = "shown"
           /\ Cleared(tl, q)
           /\ timeline_updates' # timeline_updates)
          => REQUEST_SENDER' =
               Append(REQUEST_SENDER, PaginateRoomTimeline(tl.room_id, 50, "Backwards"))]_vars

\* C21: the first show of a room (no saved TimelineUiState; the state
\* constructed is not fully paginated) submits one PaginateRoomTimeline
\* request (Backwards, 50 events), and submits it before any other request
\* for the room; a show that reclaims a saved state submits no pagination
\* request.
C21_FirstShowPaginatesFirst ==
    [][\A i \in 1..Len(room_screens) :
          LET r == room_screens[i].room_id
              ForRoom(x) == x.room_id = r
              IsPagination(x) == x.type = "PaginateRoomTimeline"
              before == SelectSeq(REQUEST_SENDER, ForRoom)
              after == SelectSeq(REQUEST_SENDER', ForRoom)
          IN
          /\ (room_screens[i].pc = "first_time" /\ room_screens'[i].pc = "shown")
             => /\ after[1] = PaginateRoomTimeline(r, 50, "Backwards")
                /\ Len(SelectSeq(after, IsPagination)) = 1
          /\ (room_screens[i].pc = "spawned" /\ room_screens'[i].pc = "shown")
             => SelectSeq(after, IsPagination) = SelectSeq(before, IsPagination)]_vars

\* Room r is hidden: its TimelineUiState is saved in TIMELINE_STATES.
Hidden(r) == TIMELINE_STATES[r] # NoState

\* No request about the typing notices of room r waits in the channel of
\* async_worker().
TypingRequestsProcessed(r) ==
    \A i \in DOMAIN REQUEST_SENDER :
       ~(/\ REQUEST_SENDER[i].type = "SubscribeToTypingNotices"
         /\ REQUEST_SENDER[i].room_id = r)

\* The guard of the typing notices of a hidden room whose requests are
\* processed is dropped.
GuardDropped ==
    \A r \in Rooms :
       (Hidden(r) /\ TypingRequestsProcessed(r))
       => ALL_JOINED_ROOMS[r] \notin typing_notice_subscriber

C24_WorkerSurvivesRequests == ~async_worker_panicked

\* A step of a task spawned by async_worker(): an update is pushed, or the
\* tasks change while the channel of the worker does not lose a request.
TaskStep ==
    \/ \E t \in DOMAIN timeline_updates' : Count(timeline_updates', t) > Queued(t)
    \/ /\ worker_tasks' # worker_tasks
       /\ Len(REQUEST_SENDER') >= Len(REQUEST_SENDER)

\* C25: the task of a request pushes one typed update into the update
\* sender of the room and broadcasts RefreshUI: each step of a task is its
\* last, pushes an update and broadcasts.
C25_OneUpdatePerRequest ==
    [][TaskStep =>
          /\ \E t \in DOMAIN timeline_updates' : Count(timeline_updates', t) = Queued(t) + 1
          /\ Len(worker_tasks') = Len(worker_tasks) - 1
          /\ refresh']_vars

\* C26: a request that is executed against the JoinedRoomDetails of its
\* room (a pagination, a message) and finds none is not
\* dropped: it stays with async_worker() until the details are inserted.
C26_RequestWaitsForSession ==
    [][(/\ REQUEST_SENDER # <<>>
        /\ Head(REQUEST_SENDER).type \in {"PaginateRoomTimeline", "SendMessage"}
        /\ ALL_JOINED_ROOMS[Head(REQUEST_SENDER).room_id] = NoTask)
       => /\ REQUEST_SENDER' # <<>>
          /\ Head(REQUEST_SENDER') = Head(REQUEST_SENDER)]_vars

\* C31: the update receiver of the TimelineUiState of a shown room is the
\* receiving end of the channel of the JoinedRoomDetails the room has now,
\* also when the details were dropped and made anew.
C31_ReceiverOfCurrentSession ==
    \A i \in 1..Len(room_screens) :
       LET r == room_screens[i].room_id IN
       (room_screens[i].pc = "shown" /\ ALL_JOINED_ROOMS[r] # NoTask)
       => room_screens[i].tl_state.update_receiver = ALL_JOINED_ROOMS[r]


\* C32: after every pass of handle_rooms_list_updates() no room id is in both
\* the invited and the joined set of the RoomsList, and no room id is in more
\* than one of the three displayed lists.
C32_SetsDisjoint ==
    passes.who = "rooms_list" =>
       /\ DOMAIN rooms_list.invited_rooms \cap DOMAIN rooms_list.all_joined_rooms = {}
       /\ Range(rooms_list.displayed_invited_rooms)
             \cap Range(rooms_list.displayed_direct_rooms) = {}
       /\ Range(rooms_list.displayed_invited_rooms)
             \cap Range(rooms_list.displayed_regular_rooms) = {}
       /\ Range(rooms_list.displayed_direct_rooms)
             \cap Range(rooms_list.displayed_regular_rooms) = {}


\* The tasks of the own user's read receipts that run for room r.
ReceiptTasks(r) ==
    {i \in DOMAIN worker_tasks :
        /\ worker_tasks[i].request.type = "SubscribeToOwnUserReadReceiptsChanged"
        /\ worker_tasks[i].request.room_id = r}

\* C34: at most one task of the own user's read receipts runs for a room at
\* any time, whatever SubscribeToOwnUserReadReceiptsChanged requests were
\* submitted, and none runs once async_worker() has processed an unsubscribe.
C34_OneReceiptTask ==
    [][/\ \A r \in Rooms : Cardinality(ReceiptTasks(r)') <= 1
       /\ (/\ REQUEST_SENDER # <<>>
           /\ REQUEST_SENDER' = Tail(REQUEST_SENDER)
           /\ Head(REQUEST_SENDER).type = "SubscribeToOwnUserReadReceiptsChanged"
           /\ ~Head(REQUEST_SENDER).subscribe)
          => ReceiptTasks(Head(REQUEST_SENDER).room_id)' = {}]_vars


\* C35: handle_current_active_room(), run for a room that is not the active
\* one, completes normally whether the task of the previous room still runs
\* or has ended: ui_worker() does not panic in it and the room becomes the
\* active one.
C35_SwitchCompletes ==
    [][\A n \in 1..Len(room_screens) :
          (/\ n = Len(room_screens)
           /\ ~ui_worker_panicked
           /\ room_screens[n].pc \in {"shown", "panicked"}
           /\ \/ ui_worker_panicked'
              \/ Len(room_screens') > n)
          => (~ui_worker_panicked' /\ current_active_room' # current_active_room)]_vars


\* The task i spawned by async_worker() takes a step: it moves on to its
\* second send, or it ends, while async_worker() receives nothing.
Steps(i) ==
    /\ REQUEST_SENDER' = REQUEST_SENDER
    /\ worker_tasks' # worker_tasks
    /\ \/ worker_tasks' = [worker_tasks EXCEPT ![i].step = 1]
       \/ worker_tasks' = Without(worker_tasks, i)

\* C36: the task of a PaginateRoomTimeline request, spawned for a room that
\* has JoinedRoomDetails, sends PaginationRunning first and then exactly one
\* of PaginationIdle and PaginationError, each send with a RefreshUI
\* broadcast; the request of a room without details produces no update.
C36_PaginationReports ==
    [][/\ \A i \in DOMAIN worker_tasks :
             LET x == worker_tasks[i]
                 q == Receiver(timeline_updates', x.receiver)
             IN  (x.request.type = "PaginateRoomTimeline" /\ Steps(i)) =>
                    /\ Len(q) = Count(timeline_updates, x.receiver) + 1
                    /\ refresh'
                    /\ IF x.step = 0
                       THEN /\ q[Len(q)].type = "PaginationRunning"
                            /\ worker_tasks' = [worker_tasks EXCEPT ![i].step = 1]
                       ELSE /\ q[Len(q)].type \in {"PaginationIdle", "PaginationError"}
                            /\ worker_tasks' = Without(worker_tasks, i)
       /\ (/\ REQUEST_SENDER # <<>>
           /\ REQUEST_SENDER' = Tail(REQUEST_SENDER)
           /\ Head(REQUEST_SENDER).type = "PaginateRoomTimeline"
           /\ ALL_JOINED_ROOMS[Head(REQUEST_SENDER).room_id] = NoTask)
          => UNCHANGED <<worker_tasks, timeline_updates>>]_vars


\* C37: once the updates of an update of an Invited room (same id, state
\* still Invited) are drained, the display name and the avatar of the stored
\* InvitedRoomInfo are those of the newest snapshot.  The newest snapshot
\* has an avatar and a name, and the room was never left in the joined set.
C37_InvitedInfoFollowsSnapshot ==
    Quiescent =>
       \A i \in 1..Len(all_known_rooms) :
          LET new_room == all_known_rooms[i]
              r == new_room.room_id
          IN  (/\ new_room.state = "Invited"
               /\ new_room.room_avatar # None
               /\ new_room.display_name # None
               /\ r \in DOMAIN rooms_list.invited_rooms
               /\ r \notin DOMAIN rooms_list.all_joined_rooms)
              => /\ rooms_list.invited_rooms[r].room_avatar = new_room.room_avatar
                 /\ rooms_list.invited_rooms[r].room_name = new_room.display_name


\* The calls of fetch_user_profile() for the user that returned so far.
CallsFor(calls, user_id) == {i \in DOMAIN calls : calls[i].user_id = user_id}

\* C39: a call of fetch_user_profile() submits GetUserProfile only when the
\* cache has no entry for the user, and then marks the entry Requested and
\* returns false; every later call for the user returns true and submits
\* nothing, so that at most one request per user is submitted through it,
\* however the calls and the processing of profile updates interleave.
C39_OneRequestPerUser ==
    [][/\ fetch_calls' # fetch_calls =>
             LET call == fetch_calls'[Len(fetch_calls')]
                 u == call.user_id
             IN  IF u \in DOMAIN USER_PROFILE_CACHE
                 THEN /\ call.returned
                      /\ REQUEST_SENDER' = REQUEST_SENDER
                      /\ USER_PROFILE_CACHE' = USER_PROFILE_CACHE
                 ELSE /\ ~call.returned
                      /\ Len(REQUEST_SENDER') = Len(REQUEST_SENDER) + 1
                      /\ REQUEST_SENDER'[Len(REQUEST_SENDER')].type = "GetUserProfile"
                      /\ REQUEST_SENDER'[Len(REQUEST_SENDER')].user_id = u
                      /\ USER_PROFILE_CACHE'[u] = Requested
       /\ \A u \in Users :
             \A i, j \in CallsFor(fetch_calls', u) : i < j => fetch_calls'[j].returned]_vars

\* The profile of u1 was asked for three times: the first call submitted,
\* the profile was loaded in the meantime.
C39_Witness ==
    /\ Len(fetch_calls) = 3
    /\ \A i \in 1..3 : fetch_calls[i].user_id = "u1" /\ (fetch_calls[i].returned <=> i > 1)
    /\ "u1" \in DOMAIN USER_PROFILE_CACHE
    /\ USER_PROFILE_CACHE["u1"].state = "Loaded"


\* The queue q with one more update at its end.
Pushed(q, after) == Len(after) = Len(q) + 1 /\ SubSeq(after, 1, Len(q)) = q

\* The queue q after some of its updates were popped from its head.
Popped(q, after) ==
    Len(after) <= Len(q) /\ after = SubSeq(q, Len(q) - Len(after) + 1, Len(q))

\* C38: every update pushed with enqueue_rooms_list_update() is dequeued by
\* ui_worker() and applied, in the order of the queue: updates leave the
\* queue from its head only, and a queue that holds updates is emptied by a
\* pass that runs to its end.
C38_UpdatesEventuallyApplied ==
    /\ [][\/ Pushed(PENDING_ROOM_UPDATES, PENDING_ROOM_UPDATES')
          \/ Popped(PENDING_ROOM_UPDATES, PENDING_ROOM_UPDATES')]_vars
    /\ (PENDING_ROOM_UPDATES # <<>>)
          ~> (PENDING_ROOM_UPDATES = <<>> /\ ui_worker_awaits = NoUpdate)

\* Updates wait in the queue while the pass that began before them awaits
\* the frontend.
C38_Witness == PENDING_ROOM_UPDATES # <<>> /\ ui_worker_awaits # NoUpdate


\* Every room screen task has shown or hidden its timeline, or has ended,
\* and async_worker() has processed every request.
Settled ==
    /\ REQUEST_SENDER = <<>>
    /\ \A i \in 1..Len(room_screens) :
          \/ room_screens[i].pc \in {"done", "panicked"}
          \/ room_screens[i].pc = "shown" /\ ~room_screens[i].cancelled

\* Room r is shown by a room screen task.
Shown(r) ==
    \E i \in 1..Len(room_screens) :
       room_screens[i].room_id = r /\ room_screens[i].pc = "shown"

\* C33: once async_worker() has processed every request of the room
\* screens, the room that is shown holds a subscription to the typing
\* notices and no other room holds one, however the hide of the previous
\* screen and the show of the next interleave.
C33_ShownRoomSubscribed ==
    Settled =>
       \A r \in Rooms :
          ALL_JOINED_ROOMS[r] # NoTask =>
             (Shown(r) <=> ALL_JOINED_ROOMS[r] \in typing_notice_subscriber)

====
